---- MODULE Spec2Model ----
(***************************************************************************)
(* Billing ledger synchronisation engine of advan-workflow.                *)
(*                                                                         *)
(*   src/src/database.py              MonthlyItemsDB  (Ledger Store and    *)
(*                                    Idempotency Registry, SQLite)        *)
(*   src/src/sheets_client.py         normalize/match, GoogleSheetsClient  *)
(*                                    (External Mirror)                    *)
(*   src/backend-api/routes/billing.py   save_billing                      *)
(*   src/backend-api/routes/purchase.py  save_purchase                     *)
(*                                                                         *)
(* Text is modelled as a sequence of tokens: "K" is a legal-entity marker  *)
(* (any alternative of the regex of sheets_client.py:51), "H" a honorific  *)
(* (sheets_client.py:54), "(" and ")" an opening and a closing bracket of  *)
(* sheets_client.py:57, " " white space, every other token a letter.       *)
(***************************************************************************)
EXTENDS Integers, Sequences, FiniteSets, TLC

VARIABLES
    db,      \* the committed SQLite database: what a new connection reads
    lock,    \* the handler holding SQLite's write lock, 0 when it is free
    sheet,   \* cells of the billing spreadsheet (sheet of the year)
    psheet,  \* cells of the purchase spreadsheet (sheet of the year)
    h,       \* h[p]: request handler p, its request, position and locals
    calls,   \* number of requests started so far
    accepted,\* history: the request tokens of the batches that committed
    fn       \* a call of a function of the program: its arguments and result

vars == <<db, lock, sheet, psheet, h, calls, accepted, fn>>

----------------------------------------------------------------------------
(* Bounds of the model                                                     *)

NumHandlers == 2
MaxCalls == 2
MaxSeqCalls == 3
MaxBatch == 2

Procs == 1..NumHandlers

----------------------------------------------------------------------------
(* Identity Normalizer and Matcher: sheets_client.py:35-145                *)

None == <<"None">>

LegalTokens == {"K"}
HonorificTokens == {"H"}
OpenBrackets == {"("}
CloseBrackets == {")"}
Whitespace == {" "}

Drop(s, T) == SelectSeq(s, LAMBDA c : c \notin T)

MinOf(S) == CHOOSE x \in S : \A y \in S : x <= y

\* re.sub(r'[（(【].*?[）)】]', '', name): leftmost opening bracket that has a
\* closing bracket after it, up to the nearest such closing bracket.
RECURSIVE RemoveBracketed(_)
RemoveBracketed(s) ==
    IF s = <<>> THEN <<>>
    ELSE LET closers == {j \in 2..Len(s) : s[j] \in CloseBrackets} IN
         IF Head(s) \in OpenBrackets /\ closers # {}
         THEN RemoveBracketed(SubSeq(s, MinOf(closers) + 1, Len(s)))
         ELSE <<Head(s)>> \o RemoveBracketed(Tail(s))

RECURSIVE LStrip(_)
LStrip(s) == IF s # <<>> /\ Head(s) \in Whitespace THEN LStrip(Tail(s)) ELSE s

RECURSIVE RStrip(_)
RStrip(s) ==
    IF s # <<>> /\ s[Len(s)] \in Whitespace THEN RStrip(SubSeq(s, 1, Len(s) - 1)) ELSE s

Strip(s) == LStrip(RStrip(s))

normalize_company_name(name) ==
    IF name = <<>> THEN <<>>
    ELSE Strip(Drop(RemoveBracketed(Drop(Drop(name, LegalTokens), HonorificTokens)),
                    Whitespace))

\* Python's  a in b  on strings
Contains(b, a) ==
    \E i \in 0..(Len(b) - Len(a)) : SubSeq(b, i + 1, i + Len(a)) = a

Abs(n) == IF n < 0 THEN -n ELSE n

\* the first candidate that contains the search or is contained in it
match_company_name_FirstCompatible(search_name, candidates) ==
    LET ns == normalize_company_name(search_name)
        compat == {i \in 1..Len(candidates) :
                      /\ candidates[i] # <<>>
                      /\ normalize_company_name(candidates[i]) # <<>>
                      /\ \/ Contains(normalize_company_name(candidates[i]), ns)
                         \/ Contains(ns, normalize_company_name(candidates[i]))}
    IN  IF ns = <<>> \/ compat = {} THEN None ELSE Strip(candidates[MinOf(compat)])

\* on equal length differences the later candidate wins (diff <= best_diff)
match_company_name_LastOnTies(search_name, candidates) ==
    LET ns == normalize_company_name(search_name)
        exact == {i \in 1..Len(candidates) :
                     /\ candidates[i] # <<>>
                     /\ normalize_company_name(candidates[i]) # <<>>
                     /\ ns = normalize_company_name(candidates[i])}
        compat == {i \in 1..Len(candidates) :
                      /\ candidates[i] # <<>>
                      /\ normalize_company_name(candidates[i]) # <<>>
                      /\ \/ Contains(normalize_company_name(candidates[i]), ns)
                         \/ Contains(ns, normalize_company_name(candidates[i]))}
        best == {i \in compat :
                    \A j \in compat :
                        \/ Abs(Len(ns) - Len(normalize_company_name(candidates[i])))
                              < Abs(Len(ns) - Len(normalize_company_name(candidates[j])))
                        \/ /\ Abs(Len(ns) - Len(normalize_company_name(candidates[i])))
                                 = Abs(Len(ns) - Len(normalize_company_name(candidates[j])))
                           /\ i >= j}
    IN  IF ns = <<>> THEN None
        ELSE IF exact # {} THEN Strip(candidates[MinOf(exact)])
        ELSE IF compat # {} THEN Strip(candidates[MinOf(best)])
        ELSE None

\* the fallback pass does not skip the candidates that normalize to the
\* empty name, which every search contains
match_company_name_EmptyCompatible(search_name, candidates) ==
    LET ns == normalize_company_name(search_name)
        exact == {i \in 1..Len(candidates) :
                     /\ candidates[i] # <<>>
                     /\ ns = normalize_company_name(candidates[i])}
        compat == {i \in 1..Len(candidates) :
                      /\ candidates[i] # <<>>
                      /\ \/ Contains(normalize_company_name(candidates[i]), ns)
                         \/ Contains(ns, normalize_company_name(candidates[i]))}
        best == {i \in compat :
                    \A j \in compat :
                        \/ Abs(Len(ns) - Len(normalize_company_name(candidates[i])))
                              < Abs(Len(ns) - Len(normalize_company_name(candidates[j])))
                        \/ /\ Abs(Len(ns) - Len(normalize_company_name(candidates[i])))
                                 = Abs(Len(ns) - Len(normalize_company_name(candidates[j])))
                           /\ i <= j}
    IN  IF ns = <<>> THEN None
        ELSE IF exact # {} THEN Strip(candidates[MinOf(exact)])
        ELSE IF compat # {} THEN Strip(candidates[MinOf(best)])
        ELSE None

match_company_name(search_name, candidates) ==
    LET ns == normalize_company_name(search_name)
        norm(i) == normalize_company_name(candidates[i])
        exact == {i \in 1..Len(candidates) :
                     candidates[i] # <<>> /\ norm(i) # <<>> /\ ns = norm(i)}
        compat == {i \in 1..Len(candidates) :
                      /\ candidates[i] # <<>>
                      /\ norm(i) # <<>>
                      /\ (Contains(norm(i), ns) \/ Contains(ns, norm(i)))}
        diff(i) == Abs(Len(ns) - Len(norm(i)))
        best == {i \in compat : \A j \in compat : diff(i) < diff(j) \/ (diff(i) = diff(j) /\ i <= j)}
    IN  IF ns = <<>> THEN None
        ELSE IF exact # {} THEN Strip(candidates[MinOf(exact)])
        ELSE IF compat # {} THEN Strip(candidates[MinOf(best)])
        ELSE None

\* the matched name is looked up from the top of the column
_find_company_row_FromTop(company_name, col_a_values, start_row) ==
    LET candidates == SubSeq(col_a_values, start_row, Len(col_a_values))
        matched == match_company_name(company_name, candidates)
        hits == {i \in 1..Len(col_a_values) : Strip(col_a_values[i]) = matched}
    IN  IF matched = None \/ hits = {} THEN 0 ELSE MinOf(hits)

\* Row number (1-indexed), 0 for Python's None
_find_company_row(company_name, col_a_values, start_row) ==
    LET offset == start_row - 1
        candidates == SubSeq(col_a_values, offset + 1, Len(col_a_values))
        matched == match_company_name(company_name, candidates)
        hits == {i \in 1..Len(candidates) : Strip(candidates[i]) = matched}
    IN  IF matched = None \/ hits = {} THEN 0
        ELSE (MinOf(hits) - 1) + start_row

----------------------------------------------------------------------------
(* The world of the model: request values and the two spreadsheets         *)

Tokens == {"", "t1"}

\* request year_month values: "2025y3m" stands for the label of March 2025 in
\* the form "YYYY年M月", "2025-03" for its dashed form; "2025y4m" has no
\* column in either sheet
YearMonths == {"2025-03", "2025y4m"}

\* billing.py:119-123, purchase.py:251-255:
\*   "YYYY-MM" -> f"{int(parts[0])}年{int(parts[1])}月", anything else as given
ConvertYearMonth(ym) == IF ym = "2025-03" THEN "2025y3m" ELSE ym

\* delivery notes a request can carry (DeliveryNoteRequest, billing.py:34-42);
\* an item stands for one DeliveryItemRequest row
NotePool ==
    { [slip_number |-> "S1", date |-> "2025/03/01", items |-> <<"i1">>,
       subtotal |-> 10, tax |-> 1, total |-> 11],
      [slip_number |-> "S2", date |-> "2025/03/02", items |-> <<"i1", "i2">>,
       subtotal |-> 20, tax |-> 2, total |-> 22],
      [slip_number |-> "S1", date |-> "2025/03/03", items |-> <<"i2">>,
       subtotal |-> 30, tax |-> 3, total |-> 40] }

NoteSeq ==
    << CHOOSE n \in NotePool : n.subtotal = 10, CHOOSE n \in NotePool : n.subtotal = 20,
       CHOOSE n \in NotePool : n.subtotal = 30 >>

\* payloads: the first n notes of NoteSeq, n up to MaxBatch
NoteLists == {SubSeq(NoteSeq, 1, n) : n \in 1..MaxBatch} \ {<<>>}

SalesPersons == {<<>>}

\* company names as they arrive in requests
RequestNames == {<<"A">>, <<"X">>}

\* billing spreadsheet: row 1 holds the year-month headers, rows 3.. column A
\* the company names; the four columns of a month are
\* 発生 (subtotal), 消費税 (tax), 消滅 (payment), 残高 (balance)
Row1 == <<"", "2025y3m", "", "", "">>
ColA == << <<>>, <<>>, <<"K", "A">>, <<"K", "A", "B">> >>

\* purchase spreadsheet: row 2 holds the year-month headers, rows 4.. column A
\* the suppliers; "TaxableTotal" is the marker 課税仕入れ合計 and "NonTaxable"
\* the marker 非課税仕入 of _find_purchase_section_info
PRow2 == <<"", "2025y3m", "", "", "">>
PColA == << <<>>, <<>>, <<>>, <<"K", "S">>, <<>>, <<"TaxableTotal">>,
            <<"NonTaxable">>, <<"N">> >>
PurchaseNames == {<<"S">>}

PurchasePool ==
    { [slip_number |-> "P1", subtotal |-> 100, tax |-> 10, total |-> 110,
       is_taxable |-> TRUE],
      [slip_number |-> "P2", subtotal |-> 50, tax |-> 0, total |-> 50,
       is_taxable |-> FALSE] }

PurchaseSeq ==
    << CHOOSE n \in PurchasePool : n.is_taxable, CHOOSE n \in PurchasePool : ~n.is_taxable,
       CHOOSE n \in PurchasePool : n.is_taxable >>

PurchaseLists == {SubSeq(PurchaseSeq, 1, n) : n \in 1..MaxBatch} \ {<<>>}

\* a cell as the Sheets API returns it unformatted: nothing, or a number
EmptyCell == [k |-> "empty", v |-> 0]
Num(n) == [k |-> "int", v |-> n]

\* sheets_client.py:168-195, for the values above
parse_amount(value) == IF value.k = "empty" THEN 0 ELSE value.v

Cells(colA, row1, first) ==
    {<<r, c>> : r \in first..Len(colA), c \in 2..Len(row1)}

----------------------------------------------------------------------------
(* Ledger Store: database.py                                               *)

EmptyDb ==
    [invoices |-> {}, notes |-> {}, items |-> {}, tokens |-> {},
     purchases |-> {},
     seq |-> [invoice |-> 0, note |-> 0, item |-> 0]]

NotFound == [id |-> 0, company_name |-> <<>>]

\* rows of a table as a sequence in id order
RECURSIVE ById(_)
ById(rows) ==
    IF rows = {} THEN <<>>
    ELSE LET r == CHOOSE x \in rows : \A y \in rows : x.id <= y.id
         IN  <<r>> \o ById(rows \ {r})

\* without an exact match the first period of the month is taken, whatever
\* its company name
_find_invoice_id_AnyOfMonth(d, year_month, company_name) ==
    LET exact == {r \in d.invoices :
                     r.year_month = year_month /\ r.company_name = company_name}
        rows == ById({r \in d.invoices : r.year_month = year_month})
    IN  IF exact # {}
        THEN LET r == CHOOSE x \in exact : TRUE
             IN  [id |-> r.id, company_name |-> r.company_name]
        ELSE IF rows = <<>> THEN NotFound
        ELSE [id |-> rows[1].id, company_name |-> rows[1].company_name]

\* database.py:196-232
_find_invoice_id(d, year_month, company_name) ==
    LET exact == {r \in d.invoices :
                     r.year_month = year_month /\ r.company_name = company_name}
        rows == ById({r \in d.invoices : r.year_month = year_month})
        db_names == [i \in 1..Len(rows) |-> rows[i].company_name]
        matched == match_company_name(company_name, db_names)
        hits == {i \in 1..Len(rows) : rows[i].company_name = matched}
    IN  IF exact # {}
        THEN LET r == CHOOSE x \in exact : TRUE
             IN  [id |-> r.id, company_name |-> r.company_name]
        ELSE IF rows = <<>> \/ matched = None \/ hits = {} THEN NotFound
        ELSE [id |-> rows[MinOf(hits)].id, company_name |-> rows[MinOf(hits)].company_name]

\* database.py:234-249
check_request_id(d, request_id) ==
    IF request_id = "" THEN FALSE ELSE request_id \in d.tokens

\* "".join(sales_person.split()), database.py:388
CleanSalesPerson(sp) == Drop(sp, Whitespace)

\* UNIQUE(year_month, company_name), database.py:54
InvoicesUnique(d) ==
    \A a, b \in d.invoices :
        (a.year_month = b.year_month /\ a.company_name = b.company_name) => a.id = b.id

\* a period row is inserted for every save, and nothing checks it
UpsertInvoiceAlwaysInserts(d, found, year_month, company_name) ==
    LET id == d.seq.invoice + 1
    IN  [ok |-> TRUE,
         d |-> [d EXCEPT !.invoices = @ \cup
                             {[id |-> id, year_month |-> year_month,
                               company_name |-> company_name]},
                         !.seq.invoice = id],
         invoice_id |-> id]

\* database.py:404-423: the UPDATE or INSERT of monthly_invoices.  ok is FALSE
\* when SQLite raises IntegrityError
UpsertInvoice(d, found, year_month, company_name) ==
    IF found.id # 0
    THEN LET renamed ==
                 [d EXCEPT !.invoices =
                     {IF r.id = found.id /\ found.company_name # company_name
                      THEN [r EXCEPT !.company_name = company_name] ELSE r
                      : r \in d.invoices}]
         IN  [ok |-> InvoicesUnique(renamed), d |-> renamed, invoice_id |-> found.id]
    ELSE LET id == d.seq.invoice + 1
             inserted ==
                 [d EXCEPT !.invoices = @ \cup
                               {[id |-> id, year_month |-> year_month,
                                 company_name |-> company_name]},
                           !.seq.invoice = id]
         IN  [ok |-> InvoicesUnique(inserted), d |-> inserted, invoice_id |-> id]

\* INSERT INTO delivery_items for each item of the note, database.py:471-484
RECURSIVE InsertItems(_, _, _)
InsertItems(d, note_id, items) ==
    IF items = <<>> THEN d
    ELSE LET id == d.seq.item + 1
         IN  InsertItems(
                 [d EXCEPT !.items = @ \cup
                               {[id |-> id, delivery_note_id |-> note_id,
                                 product |-> Head(items)]},
                           !.seq.item = id],
                 note_id, Tail(items))

\* every note is inserted as a new row
UpsertNoteAlwaysInserts(d, invoice_id, note, sales_person) ==
    LET id == d.seq.note + 1
        inserted ==
            [d EXCEPT !.notes = @ \cup
                          {[id |-> id, monthly_invoice_id |-> invoice_id,
                            slip_number |-> note.slip_number, date |-> note.date,
                            sales_person |-> sales_person,
                            subtotal |-> note.subtotal, tax |-> note.tax,
                            total |-> note.total]},
                      !.seq.note = id]
    IN  [ok |-> TRUE, d |-> InsertItems(inserted, id, note.items)]

\* the line items of the previous version of the note are kept
UpsertNoteKeepsItems(d, invoice_id, note, sales_person) ==
    LET existing == {n \in d.notes :
                        n.monthly_invoice_id = invoice_id /\ n.slip_number = note.slip_number}
        id == IF existing # {} THEN (CHOOSE n \in existing : TRUE).id ELSE d.seq.note + 1
        row == [id |-> id, monthly_invoice_id |-> invoice_id,
                slip_number |-> note.slip_number, date |-> note.date,
                sales_person |-> sales_person,
                subtotal |-> note.subtotal, tax |-> note.tax, total |-> note.total]
        written == [d EXCEPT !.notes = (@ \ existing) \cup {row},
                             !.seq.note = IF existing # {} THEN @ ELSE id]
    IN  [ok |-> TRUE, d |-> InsertItems(written, id, note.items)]

\* an existing note is replaced by a new row (INSERT OR REPLACE)
UpsertNoteReplacesRow(d, invoice_id, note, sales_person) ==
    LET existing == {n \in d.notes :
                        n.monthly_invoice_id = invoice_id /\ n.slip_number = note.slip_number}
        id == d.seq.note + 1
        written ==
            [d EXCEPT !.notes = (@ \ existing) \cup
                          {[id |-> id, monthly_invoice_id |-> invoice_id,
                            slip_number |-> note.slip_number, date |-> note.date,
                            sales_person |-> sales_person,
                            subtotal |-> note.subtotal, tax |-> note.tax,
                            total |-> note.total]},
                      !.items = {it \in @ : it.delivery_note_id \notin
                                                {n.id : n \in existing}},
                      !.seq.note = id]
    IN  [ok |-> TRUE, d |-> InsertItems(written, id, note.items)]

\* the total is recomputed from the subtotal and the tax
UpsertNoteRecomputesTotal(d, invoice_id, note, sales_person) ==
    LET existing == {n \in d.notes :
                        n.monthly_invoice_id = invoice_id /\ n.slip_number = note.slip_number}
        id == IF existing # {} THEN (CHOOSE n \in existing : TRUE).id ELSE d.seq.note + 1
        row == [id |-> id, monthly_invoice_id |-> invoice_id,
                slip_number |-> note.slip_number, date |-> note.date,
                sales_person |-> sales_person,
                subtotal |-> note.subtotal, tax |-> note.tax,
                total |-> note.subtotal + note.tax]
        written == [d EXCEPT !.notes = (@ \ existing) \cup {row},
                             !.items = {it \in @ : it.delivery_note_id # id},
                             !.seq.note = IF existing # {} THEN @ ELSE id]
    IN  [ok |-> TRUE, d |-> InsertItems(written, id, note.items)]

\* database.py:427-485: one pass of the loop over delivery_notes.  ok is FALSE
\* when the INSERT violates the foreign key to monthly_invoices
UpsertNote(d, invoice_id, note, sales_person) ==
    LET existing == {n \in d.notes :
                        n.monthly_invoice_id = invoice_id /\ n.slip_number = note.slip_number}
    IN  IF existing # {}
        THEN LET old == CHOOSE n \in existing : TRUE
                 new == [old EXCEPT !.date = note.date, !.sales_person = sales_person,
                                    !.subtotal = note.subtotal, !.tax = note.tax,
                                    !.total = note.total]
                 cleared == [d EXCEPT !.notes = (@ \ {old}) \cup {new},
                                      !.items = {it \in @ : it.delivery_note_id # old.id}]
             IN  [ok |-> TRUE, d |-> InsertItems(cleared, old.id, note.items)]
        ELSE LET id == d.seq.note + 1
                 inserted ==
                     [d EXCEPT !.notes = @ \cup
                                   {[id |-> id, monthly_invoice_id |-> invoice_id,
                                     slip_number |-> note.slip_number, date |-> note.date,
                                     sales_person |-> sales_person,
                                     subtotal |-> note.subtotal, tax |-> note.tax,
                                     total |-> note.total]},
                               !.seq.note = id]
             IN  [ok |-> \E r \in d.invoices : r.id = invoice_id,
                  d |-> InsertItems(inserted, id, note.items)]

\* the token is not recorded
RecordTokenForgets(d, request_id) == d

\* INSERT OR IGNORE INTO save_requests, database.py:487-492
RecordToken(d, request_id) ==
    IF request_id = "" THEN d ELSE [d EXCEPT !.tokens = @ \cup {request_id}]

\* the delete removes the period row only
DeleteInvoiceNoCascade(d, invoice_id) ==
    [d EXCEPT !.invoices = {r \in @ : r.id # invoice_id}]

\* the delete clears the registry of tokens too
DeleteInvoiceAndTokens(d, invoice_id) ==
    [d EXCEPT !.invoices = {r \in @ : r.id # invoice_id},
              !.notes = {n \in @ : n.monthly_invoice_id # invoice_id},
              !.tokens = {}]

\* DELETE FROM monthly_invoices WHERE id = ?, with ON DELETE CASCADE
\* (database.py:70-71, 84-85, 509-511)
DeleteInvoice(d, invoice_id) ==
    LET gone == {n.id : n \in {n \in d.notes : n.monthly_invoice_id = invoice_id}}
    IN  [d EXCEPT !.invoices = {r \in @ : r.id # invoice_id},
                  !.notes = {n \in @ : n.monthly_invoice_id # invoice_id},
                  !.items = {it \in @ : it.delivery_note_id \notin gone}]

\* the pre-commit guard of billing.py:154-158: the slip numbers of the
\* request that exist under the period found for (year_month, company)
find_existing_slip_numbers(d, company_name, year_month, slip_numbers) ==
    LET found == _find_invoice_id(d, year_month, company_name)
    IN  {n.slip_number : n \in {n \in d.notes : n.monthly_invoice_id = found.id
                                               /\ n.slip_number \in slip_numbers}}

----------------------------------------------------------------------------
(* External Mirror: sheets_client.py                                       *)

\* sheets_client.py:650-656 and 1061-1066: 1-indexed column whose header
\* cell contains the label, 0 for None
MonthColumn(row_values, year_month) ==
    LET hits == {i \in 1..Len(row_values) : row_values[i] = year_month}
    IN  IF hits = {} THEN 0 ELSE MinOf(hits)

\* sheets_client.py:365-392; the candidates are the non-empty cells from row 3
get_canonical_company_name(company_name) ==
    match_company_name(company_name,
                       SelectSeq(SubSeq(ColA, 3, Len(ColA)), LAMBDA v : v # <<>>))

\* sheets_client.py:1041-1059; the candidates are the non-empty cells from row 4
get_canonical_purchase_company_name(company_name) ==
    match_company_name(company_name,
                       SelectSeq(SubSeq(PColA, 4, Len(PColA)), LAMBDA v : v # <<>>))

\* sheets_client.py:792-846: the section of the last boundary at or above the row
RECURSIVE SectionType(_, _, _, _)
SectionType(col_a_values, company_row, row, type) ==
    IF row > Len(col_a_values) \/ row > company_row THEN type
    ELSE LET val == col_a_values[row]
             next == IF Contains(val, <<"TaxableTotal">>) THEN "1row"
                     ELSE IF Contains(val, <<"NonTaxable">>) THEN "1row"
                     ELSE IF Contains(val, <<"TaxableVendor">>) THEN "2row"
                     ELSE IF val = <<"NonTaxableTotal">> THEN "2row"
                     ELSE type
         IN  SectionType(col_a_values, company_row, row + 1, next)

_find_purchase_section_info(col_a_values, company_row) ==
    [type |-> SectionType(col_a_values, company_row, 1, "2row"), row |-> company_row]

\* sheets_client.py:903-915
PurchaseTargetRow(company_row, is_taxable) ==
    IF _find_purchase_section_info(PColA, company_row).type = "2row" /\ is_taxable
    THEN company_row + 1 ELSE company_row

NoCur == [row |-> 0, col |-> 0, hassei |-> 0, tax |-> 0, zandaka |-> 0]

\* sheets_client.py:698-719: the two accumulator cells as read
BillingRead(sh, row, col) ==
    [row |-> row, col |-> col, hassei |-> parse_amount(sh[<<row, col>>]),
     tax |-> parse_amount(sh[<<row, col + 1>>]), zandaka |-> 0]

\* the balance cell is written as save_purchase_record writes it
BillingWriteWithBalance(sh, cur, note, n) ==
    IF n >= 2
    THEN [sh EXCEPT ![<<cur.row, cur.col>>] = Num(cur.hassei + note.subtotal),
                    ![<<cur.row, cur.col + 1>>] = Num(cur.tax + note.tax),
                    ![<<cur.row, cur.col + 3>>] = Num(note.subtotal + note.tax)]
    ELSE sh

\* the cells are incremented in place, whatever was read before
BillingWriteIncrements(sh, cur, note, n) ==
    IF n >= 2
    THEN [sh EXCEPT ![<<cur.row, cur.col>>] = Num(parse_amount(@) + note.subtotal),
                    ![<<cur.row, cur.col + 1>>] = Num(parse_amount(@) + note.tax)]
    ELSE sh

\* the cells are overwritten with the amounts of the note
BillingWriteOverwrites(sh, cur, note, n) ==
    IF n >= 2
    THEN [sh EXCEPT ![<<cur.row, cur.col>>] = Num(note.subtotal),
                    ![<<cur.row, cur.col + 1>>] = Num(note.tax)]
    ELSE sh

\* sheets_client.py:721-733: update_cell of 発生 and 消費税; the first n of
\* the two calls succeed
BillingWrite(sh, cur, note, n) ==
    LET one == IF n >= 1 THEN [sh EXCEPT ![<<cur.row, cur.col>>] = Num(cur.hassei + note.subtotal)]
               ELSE sh
    IN  IF n >= 2 THEN [one EXCEPT ![<<cur.row, cur.col + 1>>] = Num(cur.tax + note.tax)]
        ELSE one

\* sheets_client.py:917-938
PurchaseRead(sh, row, col) ==
    [row |-> row, col |-> col, hassei |-> parse_amount(sh[<<row, col>>]),
     tax |-> parse_amount(sh[<<row, col + 1>>]),
     zandaka |-> parse_amount(sh[<<row, col + 3>>])]

\* sheets_client.py:940-950: update_cell of 発生, 消費税 and 残高; the first n
\* of the three calls succeed
PurchaseWrite(sh, cur, note, n) ==
    LET one == IF n >= 1 THEN [sh EXCEPT ![<<cur.row, cur.col>>] = Num(cur.hassei + note.subtotal)]
               ELSE sh
        two == IF n >= 2 THEN [one EXCEPT ![<<cur.row, cur.col + 1>>] = Num(cur.tax + note.tax)]
               ELSE one
    IN  IF n >= 3
        THEN [two EXCEPT ![<<cur.row, cur.col + 3>>] =
                             Num(cur.zandaka + note.subtotal + note.tax)]
        ELSE two

----------------------------------------------------------------------------
(* Request handlers                                                        *)

NoRequest ==
    [company_name |-> <<>>, year_month |-> "", notes |-> <<>>, sales_person |-> <<>>,
     request_id |-> "", force_overwrite |-> FALSE]

NoResult == [status |-> "none", saved_count |-> 0, warning |-> FALSE]

\* history kept for the properties, reset at the start of every request:
\*   tok_at_start  the token of the request was recorded when it started
\*   acc_at_start  a batch carrying the token had committed when it started
\*   committed     the request's ledger transaction committed its writes
\*   skipped       the request found its token recorded and was skipped
\*   returned      the ledger batch call of the request has returned normally
\*   partial       the ledger transaction was rolled back after at least one
\*                 note of the batch had been written in it
\*   renamed       the save found the period under another company name
\*                 and renamed it
\*   mirror_writes cells of the mirror written by the request
\*   mirror_done   notes of the request whose mirror cells were all written
\*   mirror_missed notes whose mirror write returned without writing
\*   mirror_raised notes of the request whose mirror write raised
NoHistory ==
    [tok_at_start |-> FALSE, acc_at_start |-> FALSE,
     committed |-> FALSE, skipped |-> FALSE, returned |-> FALSE, partial |-> FALSE,
     renamed |-> FALSE,
     mirror_writes |-> 0, mirror_done |-> 0, mirror_missed |-> 0, mirror_raised |-> 0]

Idle ==
    [op |-> "none", pc |-> "idle", req |-> NoRequest,
     company_name |-> <<>>, year_month |-> "", found |-> NotFound, invoice_id |-> 0,
     tx |-> EmptyDb, i |-> 0, cur |-> NoCur, sheet_errors |-> <<>>, saved_count |-> 0,
     result |-> NoResult, hist |-> NoHistory]

BillingRequests ==
    {r \in [company_name : RequestNames, year_month : YearMonths, notes : NoteLists,
            sales_person : SalesPersons, request_id : Tokens, force_overwrite : BOOLEAN] :
        r.company_name = <<"X">> => r.year_month = "2025-03"}

PurchaseRequests ==
    [company_name : PurchaseNames, year_month : {"2025-03"}, notes : PurchaseLists,
     sales_person : SalesPersons, request_id : {"t1"}, force_overwrite : BOOLEAN]

\* direct calls of MonthlyItemsDB.save_monthly_items_batch: the names are
\* stored as given
BatchRequests ==
    [company_name : {<<"K", "A">>}, year_month : {"2025y3m"}, notes : NoteLists,
     sales_person : SalesPersons, request_id : Tokens, force_overwrite : {FALSE}]

DeleteRequests ==
    {[NoRequest EXCEPT !.company_name = c, !.year_month = ym] :
        c \in {<<"A">>}, ym \in {"2025y3m"}}

Free(p) == h[p].pc \in {"idle", "done"}

\* a request arrives at a free handler
NewCall(op, pc, req) ==
    [Idle EXCEPT !.op = op, !.pc = pc, !.req = req,
                 !.hist.tok_at_start = req.request_id # "" /\ req.request_id \in db.tokens,
                 !.hist.acc_at_start = req.request_id \in accepted]

\* the handler is done: its locals are gone, the token of the request and
\* the response stay on record
Done(hp, result) ==
    [Idle EXCEPT !.op = hp.op, !.pc = "done",
                 !.req = [NoRequest EXCEPT !.request_id = hp.req.request_id],
                 !.result = result, !.hist = hp.hist]

\* the handler returns: HTTP 500 (billing.py:200-201, purchase.py:323-326)
Raise(hp) == Done(hp, [status |-> "http500", saved_count |-> 0, warning |-> FALSE])

\* billing.py:190-198
BillingReturn(hp) ==
    Done(hp, [status |-> "ok", saved_count |-> hp.saved_count,
              warning |-> hp.sheet_errors # <<>>])

\* billing.py:178: the loop over delivery_notes, at note k
BillingMirrorFrom(hp, k) ==
    IF k > Len(hp.req.notes) THEN BillingReturn(hp)
    ELSE [hp EXCEPT !.pc = "m_read", !.i = k, !.cur = NoCur]

\* the callers of save_monthly_items_batch
BatchOps == {"save_billing", "save_monthly_items_batch"}

\* return saved_count (database.py:402, 495): save_billing goes on with
\* Layer 2 (billing.py:176), a direct call is over
BatchReturn(hp) ==
    IF hp.op = "save_billing" THEN BillingMirrorFrom(hp, 1)
    ELSE Done(hp, [status |-> "ok", saved_count |-> hp.saved_count, warning |-> FALSE])

----------------------------------------------------------------------------
(* save_billing: billing.py:85-201                                         *)

\* the mirror loop runs before the ledger batch
SaveBillingEntryMirrorFirst(hp) ==
    {[hp EXCEPT !.company_name = hp.req.company_name,
                !.year_month = ConvertYearMonth(hp.req.year_month),
                !.pc = "m_read", !.i = 1]}

\* billing.py:90-123: the token check of check_request_id, then the canonical
\* name; get_canonical_company_name returns None when the sheet cannot be
\* read (sheets_client.py:390-392)
SaveBillingEntry(hp) ==
    IF hp.req.request_id # "" /\ check_request_id(db, hp.req.request_id)
    THEN {Done([hp EXCEPT !.hist.skipped = TRUE],
               [status |-> "ok", saved_count |-> 0, warning |-> FALSE])}
    ELSE {[hp EXCEPT !.company_name = IF canonical # None THEN canonical
                                      ELSE hp.req.company_name,
                     !.year_month = ConvertYearMonth(hp.req.year_month),
                     !.pc = IF hp.req.force_overwrite THEN "b_token" ELSE "sb_dup"]
          : canonical \in {get_canonical_company_name(hp.req.company_name), None}}

StartSaveBilling(p, limit) ==
    /\ Free(p)
    /\ calls < limit
    /\ calls' = calls + 1
    /\ \E req \in BillingRequests :
          \E hp \in SaveBillingEntry(NewCall("save_billing", "sb_check", req)) :
             h' = [h EXCEPT ![p] = hp]
    /\ UNCHANGED <<db, lock, sheet, psheet, accepted, fn>>

\* the guard lets every request through
SaveBillingDuplicateCheckSkipped(p) ==
    /\ h[p].op = "save_billing" /\ h[p].pc = "sb_dup"
    /\ h' = [h EXCEPT ![p] = [@ EXCEPT !.pc = "b_token"]]
    /\ UNCHANGED <<db, lock, sheet, psheet, calls, accepted, fn>>

\* billing.py:151-165
SaveBillingDuplicateCheck(p) ==
    /\ h[p].op = "save_billing" /\ h[p].pc = "sb_dup"
    /\ LET slip_numbers == {h[p].req.notes[k].slip_number : k \in 1..Len(h[p].req.notes)}
                               \ {""}
           existing == find_existing_slip_numbers(db, h[p].company_name, h[p].year_month,
                                                  slip_numbers)
       IN  h' = [h EXCEPT ![p] =
                    IF existing # {}
                    THEN Done(@, [status |-> "conflict", saved_count |-> 0,
                                  warning |-> FALSE])
                    ELSE [@ EXCEPT !.pc = "b_token"]]
    /\ UNCHANGED <<db, lock, sheet, psheet, calls, accepted, fn>>

----------------------------------------------------------------------------
(* save_monthly_items_batch: database.py:376-495, inside _get_connection   *)
(* (database.py:26-39).  The connection is in sqlite3's default mode: a    *)
(* transaction is opened before the first INSERT/UPDATE/DELETE only, so    *)
(* the SELECTs of lines 396 and 405 read the committed database without    *)
(* a lock, and the write lock is taken by the first statement of 407-423.  *)

\* a direct call of save_monthly_items_batch (database.py:376-389)
StartBatchOf(p, limit, requests) ==
    /\ Free(p)
    /\ calls < limit
    /\ calls' = calls + 1
    /\ \E req \in requests :
          h' = [h EXCEPT ![p] =
                   [NewCall("save_monthly_items_batch", "b_token", req)
                        EXCEPT !.company_name = req.company_name,
                               !.year_month = req.year_month]]
    /\ UNCHANGED <<db, lock, sheet, psheet, accepted, fn>>

StartBatch(p, limit) == StartBatchOf(p, limit, BatchRequests)

\* database.py:394-402
BatchTokenCheck(p) ==
    /\ h[p].op \in BatchOps /\ h[p].pc = "b_token"
    /\ h' = [h EXCEPT ![p] =
                IF h[p].req.request_id # "" /\ h[p].req.request_id \in db.tokens
                THEN BatchReturn([@ EXCEPT !.saved_count = 0, !.hist.skipped = TRUE,
                                           !.hist.returned = TRUE])
                ELSE [@ EXCEPT !.pc = "b_find"]]
    /\ UNCHANGED <<db, lock, sheet, psheet, calls, accepted, fn>>

\* database.py:405
BatchFindInvoice(p) ==
    /\ h[p].op \in BatchOps /\ h[p].pc = "b_find"
    /\ h' = [h EXCEPT ![p] =
                [@ EXCEPT !.found = _find_invoice_id(db, h[p].year_month, h[p].company_name),
                          !.pc = "b_begin"]]
    /\ UNCHANGED <<db, lock, sheet, psheet, calls, accepted, fn>>

\* the statements executed so far are committed when the batch fails
RollbackKeepsWrites(p) ==
    /\ h' = [h EXCEPT ![p] =
                Raise([@ EXCEPT !.hist.partial = (h[p].pc = "b_note" /\ h[p].i >= 2)])]
    /\ lock' = 0
    /\ db' = IF h[p].pc = "b_note" THEN h[p].tx ELSE db
    /\ UNCHANGED <<sheet, psheet, calls, accepted, fn>>

\* the token of the request stays in the registry when the batch fails
RollbackKeepsToken(p) ==
    /\ h' = [h EXCEPT ![p] =
                Raise([@ EXCEPT !.hist.partial = (h[p].pc = "b_note" /\ h[p].i >= 2)])]
    /\ lock' = 0
    /\ db' = RecordToken(db, h[p].req.request_id)
    /\ UNCHANGED <<sheet, psheet, calls, accepted, fn>>

\* conn.rollback(); raise  (database.py:35-37), then billing.py:200-201
Rollback(p) ==
    /\ h' = [h EXCEPT ![p] =
                Raise([@ EXCEPT !.hist.partial = (h[p].pc = "b_note" /\ h[p].i >= 2)])]
    /\ lock' = 0
    /\ UNCHANGED <<db, sheet, psheet, calls, accepted, fn>>

\* database.py:407-423: the first write opens the transaction
BatchBegin(p) ==
    /\ h[p].op \in BatchOps /\ h[p].pc = "b_begin"
    /\ lock = 0
    /\ LET r == UpsertInvoice(db, h[p].found, h[p].year_month, h[p].company_name)
       IN  IF r.ok
           THEN /\ h' = [h EXCEPT ![p] =
                            [@ EXCEPT !.tx = r.d, !.invoice_id = r.invoice_id, !.i = 1,
                                      !.pc = "b_note"]]
                /\ lock' = p
                /\ UNCHANGED <<db, sheet, psheet, calls, accepted, fn>>
           ELSE Rollback(p)

\* "database is locked": the busy timeout ran out while another connection
\* held the write lock
BatchBusy(p) ==
    /\ h[p].op \in BatchOps /\ h[p].pc = "b_begin"
    /\ lock # 0
    /\ h' = [h EXCEPT ![p] = Raise(@)]
    /\ UNCHANGED <<db, lock, sheet, psheet, calls, accepted, fn>>

\* database.py:426-485: one delivery note, or a storage error raised by one
\* of its statements
BatchNote(p) ==
    /\ h[p].op \in BatchOps /\ h[p].pc = "b_note"
    /\ h[p].i <= Len(h[p].req.notes)
    /\ LET r == UpsertNote(h[p].tx, h[p].invoice_id, h[p].req.notes[h[p].i],
                           CleanSalesPerson(h[p].req.sales_person))
       IN  \/ /\ r.ok
              /\ h' = [h EXCEPT ![p] = [@ EXCEPT !.tx = r.d, !.i = @ + 1]]
              /\ UNCHANGED <<db, lock, sheet, psheet, calls, accepted, fn>>
           \/ Rollback(p)

\* database.py:487-495 and conn.commit() (database.py:34)
BatchCommit(p) ==
    /\ h[p].op \in BatchOps /\ h[p].pc = "b_note"
    /\ h[p].i > Len(h[p].req.notes)
    /\ \/ /\ db' = RecordToken(h[p].tx, h[p].req.request_id)
          /\ lock' = 0
          /\ h' = [h EXCEPT ![p] =
                      BatchReturn([@ EXCEPT !.tx = EmptyDb,
                                            !.saved_count = Len(h[p].req.notes),
                                            !.hist.committed = TRUE,
                                            !.hist.returned = TRUE])]
          /\ accepted' = accepted \cup ({h[p].req.request_id} \ {""})
          /\ UNCHANGED <<sheet, psheet, calls, fn>>
       \/ Rollback(p)

----------------------------------------------------------------------------
(* Layer 2 of save_billing: billing.py:176-188 around save_billing_record  *)
(* (sheets_client.py:611-733)                                              *)

\* the exception of the mirror write leaves save_billing
SheetErrorPropagates(hp) == Raise([hp EXCEPT !.hist.mirror_raised = @ + 1])

\* except Exception as sheet_err (billing.py:186-188)
SheetError(hp) ==
    BillingMirrorFrom([hp EXCEPT !.sheet_errors = Append(@, hp.req.notes[hp.i].slip_number),
                                 !.hist.mirror_raised = @ + 1],
                      hp.i + 1)

\* sheets_client.py:635-719: find the column and the row, read the cells
MirrorRead(p) ==
    /\ h[p].op = "save_billing" /\ h[p].pc = "m_read"
    /\ LET col == MonthColumn(Row1, h[p].year_month)
           row == _find_company_row(h[p].company_name, ColA, 3)
       IN  \/ /\ col # 0 /\ row # 0
              /\ h' = [h EXCEPT ![p] =
                          [@ EXCEPT !.cur = BillingRead(sheet, row, col), !.pc = "m_write"]]
           \/ /\ col = 0 \/ row = 0      \* print and return (658-661, 692-696)
              /\ h' = [h EXCEPT ![p] =
                          BillingMirrorFrom([@ EXCEPT !.hist.mirror_missed = @ + 1],
                                            h[p].i + 1)]
           \/ h' = [h EXCEPT ![p] = SheetError(@)]    \* the API call raises
    /\ UNCHANGED <<db, lock, sheet, psheet, calls, accepted, fn>>

\* sheets_client.py:721-733; the API may raise at either update_cell
MirrorWrite(p) ==
    /\ h[p].op = "save_billing" /\ h[p].pc = "m_write"
    /\ \E n \in 0..2 :
          /\ sheet' = BillingWrite(sheet, h[p].cur, h[p].req.notes[h[p].i], n)
          /\ h' = [h EXCEPT ![p] =
                      IF n = 2
                      THEN BillingMirrorFrom([@ EXCEPT !.hist.mirror_writes = @ + 2,
                                                       !.hist.mirror_done = @ + 1],
                                             h[p].i + 1)
                      ELSE SheetError([@ EXCEPT !.hist.mirror_writes = @ + n])]
    /\ UNCHANGED <<db, lock, psheet, calls, accepted, fn>>

----------------------------------------------------------------------------
(* delete_monthly_items: database.py:497-512                               *)

\* database.py:505-506
DeleteEntry(hp) ==
    LET found == _find_invoice_id(db, hp.req.year_month, hp.req.company_name)
    IN  IF found.id = 0 THEN Done(hp, [NoResult EXCEPT !.status = "ok"])
        ELSE [hp EXCEPT !.found = found, !.pc = "d_delete"]

StartDelete(p, limit) ==
    /\ Free(p)
    /\ calls < limit
    /\ calls' = calls + 1
    /\ \E req \in DeleteRequests :
          h' = [h EXCEPT ![p] = DeleteEntry(NewCall("delete_monthly_items", "d_find", req))]
    /\ UNCHANGED <<db, lock, sheet, psheet, accepted, fn>>

\* database.py:509-511 and the commit
DeleteCommit(p) ==
    /\ h[p].op = "delete_monthly_items" /\ h[p].pc = "d_delete"
    /\ lock = 0
    /\ db' = DeleteInvoice(db, h[p].found.id)
    /\ h' = [h EXCEPT ![p] = Done([@ EXCEPT !.hist.committed = TRUE],
                                   [NoResult EXCEPT !.status = "ok"])]
    /\ UNCHANGED <<lock, sheet, psheet, calls, accepted, fn>>

----------------------------------------------------------------------------
(* save_purchase: purchase.py:222-326.  save_purchase_batch and            *)
(* find_existing_purchase_slip_numbers follow the batch writer and the     *)
(* pre-commit guard of the design (spec.md, section 4.4).                  *)

find_existing_purchase_slip_numbers(d, company_name, year_month, slip_numbers) ==
    {n.slip_number : n \in {n \in d.purchases : /\ n.year_month = year_month
                                                /\ n.company_name = company_name
                                                /\ n.slip_number \in slip_numbers}}

RECURSIVE UpsertPurchases(_, _, _, _)
UpsertPurchases(rows, company_name, year_month, notes) ==
    IF notes = <<>> THEN rows
    ELSE LET n == Head(notes)
             kept == {r \in rows : ~(/\ r.year_month = year_month
                                     /\ r.company_name = company_name
                                     /\ r.slip_number = n.slip_number)}
             row == [year_month |-> year_month, company_name |-> company_name,
                     slip_number |-> n.slip_number, subtotal |-> n.subtotal,
                     tax |-> n.tax, total |-> n.total]
         IN  UpsertPurchases(kept \cup {row}, company_name, year_month, Tail(notes))

\* one transaction: token check, upserts, token record, commit
save_purchase_batch(d, company_name, year_month, notes, request_id) ==
    IF request_id # "" /\ request_id \in d.tokens
    THEN [d |-> d, saved_count |-> 0, skipped |-> TRUE]
    ELSE [d |-> RecordToken(
                    [d EXCEPT !.purchases =
                                  UpsertPurchases(@, company_name, year_month, notes)],
                    request_id),
          saved_count |-> Len(notes), skipped |-> FALSE]

\* purchase.py:233-255
SavePurchaseEntry(hp) ==
    IF hp.req.request_id # "" /\ check_request_id(db, hp.req.request_id)
    THEN {Done([hp EXCEPT !.hist.skipped = TRUE],
               [status |-> "ok", saved_count |-> 0, warning |-> FALSE])}
    ELSE {[hp EXCEPT !.company_name = IF canonical # None THEN canonical
                                      ELSE hp.req.company_name,
                     !.year_month = ConvertYearMonth(hp.req.year_month),
                     !.i = 1,
                     !.pc = IF hp.req.force_overwrite THEN "pm_read" ELSE "sp_dup"]
          : canonical \in {get_canonical_purchase_company_name(hp.req.company_name), None}}

StartSavePurchase(p, limit) ==
    /\ Free(p)
    /\ calls < limit
    /\ calls' = calls + 1
    /\ \E req \in PurchaseRequests :
          \E hp \in SavePurchaseEntry(NewCall("save_purchase", "sp_check", req)) :
             h' = [h EXCEPT ![p] = hp]
    /\ UNCHANGED <<db, lock, sheet, psheet, accepted, fn>>

\* purchase.py:282-296
SavePurchaseDuplicateCheck(p) ==
    /\ h[p].op = "save_purchase" /\ h[p].pc = "sp_dup"
    /\ LET slip_numbers == {h[p].req.notes[k].slip_number : k \in 1..Len(h[p].req.notes)}
                               \ {""}
           existing == find_existing_purchase_slip_numbers(
                           db, h[p].company_name, h[p].year_month, slip_numbers)
       IN  h' = [h EXCEPT ![p] =
                    IF existing # {}
                    THEN Done(@, [status |-> "conflict", saved_count |-> 0,
                                  warning |-> FALSE])
                    ELSE [@ EXCEPT !.pc = "pm_read"]]
    /\ UNCHANGED <<db, lock, sheet, psheet, calls, accepted, fn>>

\* purchase.py:299-304, at note k
PurchaseMirrorFrom(hp, k) ==
    IF k > Len(hp.req.notes) THEN [hp EXCEPT !.pc = "pb_save"]
    ELSE [hp EXCEPT !.pc = "pm_read", !.i = k, !.cur = NoCur]

\* save_purchase_record up to the reads, sheets_client.py:863-938; a missing
\* column or row raises ValueError, as does any API call that fails
PurchaseMirrorRead(p) ==
    /\ h[p].op = "save_purchase" /\ h[p].pc = "pm_read"
    /\ LET col == MonthColumn(PRow2, h[p].year_month)
           row == _find_company_row(h[p].company_name, PColA, 4)
       IN  \/ /\ col # 0 /\ row # 0
              /\ h' = [h EXCEPT ![p] =
                          [@ EXCEPT !.cur = PurchaseRead(
                                                psheet,
                                                PurchaseTargetRow(
                                                    row, h[p].req.notes[h[p].i].is_taxable),
                                                col),
                                    !.pc = "pm_write"]]
           \/ h' = [h EXCEPT ![p] = Raise([@ EXCEPT !.hist.mirror_raised = @ + 1])]
    /\ UNCHANGED <<db, lock, sheet, psheet, calls, accepted, fn>>

\* sheets_client.py:940-950; the API may raise at any update_cell
PurchaseMirrorWrite(p) ==
    /\ h[p].op = "save_purchase" /\ h[p].pc = "pm_write"
    /\ \E n \in 0..3 :
          /\ psheet' = PurchaseWrite(psheet, h[p].cur, h[p].req.notes[h[p].i], n)
          /\ h' = [h EXCEPT ![p] =
                      IF n = 3
                      THEN PurchaseMirrorFrom([@ EXCEPT !.hist.mirror_writes = @ + 3,
                                                        !.hist.mirror_done = @ + 1],
                                              h[p].i + 1)
                      ELSE Raise([@ EXCEPT !.hist.mirror_writes = @ + n,
                                           !.hist.mirror_raised = @ + 1])]
    /\ UNCHANGED <<db, lock, sheet, calls, accepted, fn>>

\* purchase.py:306-321
PurchaseBatch(p) ==
    /\ h[p].op = "save_purchase" /\ h[p].pc = "pb_save"
    /\ lock = 0
    /\ \/ LET r == save_purchase_batch(db, h[p].company_name, h[p].year_month,
                                       h[p].req.notes, h[p].req.request_id)
          IN  /\ db' = r.d
              /\ h' = [h EXCEPT ![p] =
                          Done([@ EXCEPT !.saved_count = r.saved_count,
                                         !.hist.committed = ~r.skipped,
                                         !.hist.skipped = r.skipped,
                                         !.hist.returned = TRUE],
                               [status |-> "ok", saved_count |-> r.saved_count,
                                warning |-> FALSE])]
              /\ accepted' = IF r.skipped THEN accepted
                             ELSE accepted \cup ({h[p].req.request_id} \ {""})
       \/ /\ h' = [h EXCEPT ![p] = Raise(@)]
          /\ UNCHANGED <<db, accepted>>
    /\ UNCHANGED <<lock, sheet, psheet, calls, fn>>

----------------------------------------------------------------------------
(* The system                                                              *)

\* no function call
NoCall == [name |-> "none", args |-> <<>>, out |-> <<>>]

InitSheet == [c \in Cells(ColA, Row1, 3) |-> IF c[2] = 5 THEN Num(7) ELSE EmptyCell]
InitPSheet == [c \in Cells(PColA, PRow2, 4) |-> IF c[2] = 5 THEN Num(7) ELSE EmptyCell]

Init ==
    /\ db = EmptyDb
    /\ lock = 0
    /\ sheet = InitSheet
    /\ psheet = InitPSheet
    /\ h = [p \in Procs |-> Idle]
    /\ calls = 0
    /\ accepted = {}
    /\ fn = NoCall

Step(p, limit) ==
    \/ StartSaveBilling(p, limit)
    \/ SaveBillingDuplicateCheck(p)
    \/ StartBatch(p, limit)
    \/ BatchTokenCheck(p)
    \/ BatchFindInvoice(p)
    \/ BatchBegin(p)
    \/ BatchNote(p)
    \/ BatchCommit(p)
    \/ MirrorRead(p)
    \/ MirrorWrite(p)
    \/ StartDelete(p, limit)
    \/ DeleteCommit(p)
    \/ StartSavePurchase(p, limit)
    \/ SavePurchaseDuplicateCheck(p)
    \/ PurchaseMirrorRead(p)
    \/ PurchaseMirrorWrite(p)
    \/ PurchaseBatch(p)

\* requests are handled concurrently
Next == \E p \in Procs : Step(p, MaxCalls) \/ BatchBusy(p)

Spec == Init /\ [][Next]_vars

\* requests are handled one after the other
SeqNext == Step(1, MaxSeqCalls)

SeqSpec == Init /\ [][SeqNext]_vars


----------------------------------------------------------------------------
(* Direct calls of the Ledger Store, one after the other: database.py      *)

MaxDbCalls == 4

\* company names of direct calls: "A" and "B" are parts of "A B", and the
\* "K A" of the batch requests normalizes to "A"
DbNames == {<<"A">>, <<"B">>, <<"A", "B">>}

DbSalesPersons == {<<>>, <<"T">>}

\* the sales_person of an existing note is always overwritten
UpdateNoteOverwritesTag(d, invoice_id, note, sales_person) ==
    LET existing == {n \in d.notes : /\ n.monthly_invoice_id = invoice_id
                                     /\ n.slip_number = note.slip_number}
        id == IF existing # {} THEN (CHOOSE n \in existing : TRUE).id ELSE d.seq.note + 1
        row == [id |-> id, monthly_invoice_id |-> invoice_id,
                slip_number |-> note.slip_number, date |-> note.date,
                sales_person |-> sales_person,
                subtotal |-> note.subtotal, tax |-> note.tax, total |-> note.total]
        written == [d EXCEPT !.notes = (@ \ existing) \cup {row},
                             !.items = {it \in @ : it.delivery_note_id # id},
                             !.seq.note = IF existing # {} THEN @ ELSE id]
    IN  InsertItems(written, id, note.items)

\* database.py:619-700: the note of a period that exists.  An existing note
\* keeps its sales_person when the request has none
UpdateNote(d, invoice_id, note, sales_person) ==
    LET existing == {n \in d.notes : /\ n.monthly_invoice_id = invoice_id
                                     /\ n.slip_number = note.slip_number}
    IN  IF existing # {}
        THEN LET old == CHOOSE n \in existing : TRUE
                 new == [old EXCEPT !.date = note.date,
                                    !.sales_person =
                                        IF sales_person # <<>> THEN sales_person ELSE @,
                                    !.subtotal = note.subtotal, !.tax = note.tax,
                                    !.total = note.total]
                 cleared == [d EXCEPT !.notes = (@ \ {old}) \cup {new},
                                      !.items = {it \in @ : it.delivery_note_id # old.id}]
             IN  InsertItems(cleared, old.id, note.items)
        ELSE LET id == d.seq.note + 1
                 inserted ==
                     [d EXCEPT !.notes = @ \cup
                                   {[id |-> id, monthly_invoice_id |-> invoice_id,
                                     slip_number |-> note.slip_number, date |-> note.date,
                                     sales_person |-> sales_person,
                                     subtotal |-> note.subtotal, tax |-> note.tax,
                                     total |-> note.total]},
                               !.seq.note = id]
             IN  InsertItems(inserted, id, note.items)

\* the amounts of every note of the period of the note are updated
update_delivery_note_amounts_OfPeriod(d, delivery_note_id, subtotal, tax, total) ==
    [d EXCEPT !.notes =
        {IF \E m \in d.notes : /\ m.id = delivery_note_id
                               /\ m.monthly_invoice_id = n.monthly_invoice_id
         THEN [n EXCEPT !.subtotal = subtotal, !.tax = tax, !.total = total]
         ELSE n : n \in @}]

\* database.py:744-762
update_delivery_note_amounts(d, delivery_note_id, subtotal, tax, total) ==
    [d EXCEPT !.notes = {IF n.id = delivery_note_id
                         THEN [n EXCEPT !.subtotal = subtotal, !.tax = tax, !.total = total]
                         ELSE n : n \in @}]

\* the products of the line items of a note, ORDER BY id (database.py:557-563)
ItemsOf(d, note_id) ==
    LET rows == ById({it \in d.items : it.delivery_note_id = note_id})
    IN  [k \in 1..Len(rows) |-> rows[k].product]

\* database.py:514-590
get_monthly_items(d, company_name, year_month, sales_person) ==
    LET found == _find_invoice_id(d, year_month, company_name)
        rows == ById({n \in d.notes :
                         /\ n.monthly_invoice_id = found.id
                         /\ sales_person # <<>> => n.sales_person = sales_person})
    IN  IF found.id = 0 THEN <<>>
        ELSE [k \in 1..Len(rows) |->
                 [slip_number |-> rows[k].slip_number, date |-> rows[k].date,
                  items |-> ItemsOf(d, rows[k].id),
                  subtotal |-> rows[k].subtotal, tax |-> rows[k].tax,
                  total |-> rows[k].total]]

\* requests of the calls that carry one note
NoteRequests ==
    [company_name : DbNames, year_month : {"2025y3m"}, notes : {<<n>> : n \in NotePool},
     sales_person : DbSalesPersons, request_id : {""}, force_overwrite : {FALSE}]

DbDeleteRequests ==
    {[NoRequest EXCEPT !.company_name = c, !.year_month = "2025y3m"] :
        c \in {<<"A">>, <<"B">>}}

\* the record of a call that ran in one step
Called(op, req, ok, renamed) ==
    [Idle EXCEPT !.op = op, !.pc = "done", !.req = req,
                 !.result = [NoResult EXCEPT !.status = IF ok THEN "ok" ELSE "http500"],
                 !.hist.committed = ok, !.hist.renamed = renamed]

\* database.py:286-374, from the period found on: the period row, then the
\* note and its line items, in one transaction; a statement that raises
\* rolls all of it back
SaveNote(op, found, req) ==
    \E r \in {UpsertInvoice(db, found, req.year_month, req.company_name)} :
      \E n \in {UpsertNote(r.d, r.invoice_id, req.notes[1],
                             CleanSalesPerson(req.sales_person))} :
          \/ /\ r.ok
             /\ n.ok
             /\ db' = n.d
             /\ h' = [h EXCEPT ![1] =
                         Called(op, req, TRUE,
                                found.id # 0 /\ found.company_name # req.company_name)]
          \/ /\ db' = db
             /\ h' = [h EXCEPT ![1] = Called(op, req, FALSE, FALSE)]

\* database.py:268-374: one call with the request req
save_monthly_items(req) ==
    \E found \in {_find_invoice_id(db, req.year_month, req.company_name)} :
        SaveNote("save_monthly_items", found, req)

\* database.py:592-700: one call with the request req.  A period that is not
\* found is created by save_monthly_items (606-617)
update_monthly_item(req) ==
    \E found \in {_find_invoice_id(db, req.year_month, req.company_name)} :
        IF found.id = 0
        THEN SaveNote("update_monthly_item", found, req)
        ELSE \/ /\ db' = UpdateNote(db, found.id, req.notes[1],
                                     CleanSalesPerson(req.sales_person))
                /\ h' = [h EXCEPT ![1] =
                            Called("update_monthly_item", req, TRUE, FALSE)]
             \/ /\ db' = db          \* a statement raises: rollback
                /\ h' = [h EXCEPT ![1] =
                            Called("update_monthly_item", req, FALSE, FALSE)]

\* database.py:497-512: one call with the request req
delete_monthly_items(req) ==
    \E found \in {_find_invoice_id(db, req.year_month, req.company_name)} :
        /\ db' = IF found.id = 0 THEN db ELSE DeleteInvoice(db, found.id)
        /\ h' = [h EXCEPT ![1] = Called("delete_monthly_items", req, TRUE, FALSE)]

SaveMonthlyItems ==
    /\ Free(1)
    /\ calls < MaxDbCalls
    /\ calls' = calls + 1
    /\ \E req \in NoteRequests : save_monthly_items(req)
    /\ UNCHANGED <<lock, sheet, psheet, accepted, fn>>

UpdateMonthlyItem ==
    /\ Free(1)
    /\ calls < MaxDbCalls
    /\ calls' = calls + 1
    /\ \E req \in NoteRequests : update_monthly_item(req)
    /\ UNCHANGED <<lock, sheet, psheet, accepted, fn>>

\* billing.py:470-480 calls it with the amounts of the request
UpdateDeliveryNoteAmounts ==
    /\ Free(1)
    /\ calls < MaxDbCalls
    /\ calls' = calls + 1
    /\ \E id \in 1..2 :
          /\ db' = update_delivery_note_amounts(db, id, 5, 0, 5)
          /\ h' = [h EXCEPT ![1] = Called("update_delivery_note_amounts", NoRequest,
                                           TRUE, FALSE)]
    /\ UNCHANGED <<lock, sheet, psheet, accepted, fn>>

DeleteMonthlyItems ==
    /\ Free(1)
    /\ calls < MaxDbCalls
    /\ calls' = calls + 1
    /\ \E req \in DbDeleteRequests : delete_monthly_items(req)
    /\ UNCHANGED <<lock, sheet, psheet, accepted, fn>>

DbNext ==
    \/ SaveMonthlyItems
    \/ UpdateMonthlyItem
    \/ UpdateDeliveryNoteAmounts
    \/ DeleteMonthlyItems
    \/ StartBatch(1, MaxDbCalls)
    \/ BatchTokenCheck(1)
    \/ BatchFindInvoice(1)
    \/ BatchBegin(1)
    \/ BatchNote(1)
    \/ BatchCommit(1)

DbSpec == Init /\ [][DbNext]_vars

----------------------------------------------------------------------------
(* Direct calls of the Ledger Store for three company names and two        *)
(* months: database.py:268-512                                             *)

MaxFrameCalls == 3

\* two months, and the sales_person none, "T" and "T S"
FrameRequests ==
    [company_name : DbNames, year_month : {"2025y3m", "2025y4m"},
     notes : {<<NoteSeq[1]>>}, sales_person : {<<>>, <<"T">>, <<"T", " ", "S">>},
     request_id : {""}, force_overwrite : {FALSE}]

\* a call arrives when no other call is running
FrameStart ==
    /\ Free(1)
    /\ calls < MaxFrameCalls
    /\ calls' = calls + 1
    /\ UNCHANGED <<lock, sheet, psheet, accepted, fn>>

FrameNext ==
    \/ FrameStart /\ \E req \in FrameRequests : save_monthly_items(req)
    \/ FrameStart /\ \E req \in FrameRequests : update_monthly_item(req)
    \/ FrameStart /\ \E req \in FrameRequests : delete_monthly_items(req)
    \/ StartBatch(1, MaxFrameCalls)
    \/ BatchTokenCheck(1)
    \/ BatchFindInvoice(1)
    \/ BatchBegin(1)
    \/ BatchNote(1)
    \/ BatchCommit(1)

FrameSpec == Init /\ [][FrameNext]_vars

----------------------------------------------------------------------------
(* Calls of save_monthly_items_batch whose payload may carry a slip number *)
(* twice: database.py:376-495                                              *)

MaxCountCalls == 3

\* payloads of one note, of two slip numbers, and of one slip number twice
CountRequests ==
    [company_name : {<<"K", "A">>}, year_month : {"2025y3m"},
     notes : {<<NoteSeq[1]>>, <<NoteSeq[1], NoteSeq[2]>>, <<NoteSeq[1], NoteSeq[3]>>},
     sales_person : SalesPersons, request_id : Tokens, force_overwrite : {FALSE}]

CountNext ==
    \/ StartBatchOf(1, MaxCountCalls, CountRequests)
    \/ BatchTokenCheck(1)
    \/ BatchFindInvoice(1)
    \/ BatchBegin(1)
    \/ BatchNote(1)
    \/ BatchCommit(1)

CountSpec == Init /\ [][CountNext]_vars

----------------------------------------------------------------------------
(* Calls of save_monthly_items and update_monthly_item for one company     *)
(* with the sales_person none, "T", "U" and one blank: database.py:268-700 *)

UpdateRequests ==
    [company_name : {<<"A">>}, year_month : {"2025y3m"}, notes : {<<n>> : n \in NotePool},
     sales_person : {<<>>, <<"T">>, <<"U">>, <<" ">>}, request_id : {""},
     force_overwrite : {FALSE}]

UpdateNext ==
    \/ FrameStart /\ \E req \in UpdateRequests : save_monthly_items(req)
    \/ FrameStart /\ \E req \in UpdateRequests : update_monthly_item(req)

UpdateSpec == Init /\ [][UpdateNext]_vars

----------------------------------------------------------------------------
(* check_discrepancy: billing.py:373-445                                   *)

RECURSIVE SumSubtotal(_)
SumSubtotal(S) ==
    IF S = {} THEN 0
    ELSE LET n == CHOOSE n \in S : TRUE IN n.subtotal + SumSubtotal(S \ {n})

RECURSIVE SumTax(_)
SumTax(S) ==
    IF S = {} THEN 0
    ELSE LET n == CHOOSE n \in S : TRUE IN n.tax + SumTax(S \ {n})

NotesUnder(d, invoice_id) == {n \in d.notes : n.monthly_invoice_id = invoice_id}

\* the line items are joined too: a note counts once per line item
get_all_monthly_totals_PerItem(d) ==
    LET joined(id) ==
            {[item |-> p[2].id, subtotal |-> p[1].subtotal, tax |-> p[1].tax] :
                p \in {p \in NotesUnder(d, id) \X d.items :
                           p[2].delivery_note_id = p[1].id}}
    IN  {[company_name |-> r.company_name, year_month |-> r.year_month,
          subtotal |-> SumSubtotal(joined(r.id)), tax |-> SumTax(joined(r.id))] :
            r \in {r \in d.invoices : joined(r.id) # {}}}

\* database.py:702-727: the JOIN drops the periods without notes, GROUP BY
\* database.py:702-727: the JOIN drops the periods without notes, GROUP BY
\* mi.id gives one row per period; the rows are kept as a set
get_all_monthly_totals(d) ==
    {[company_name |-> r.company_name, year_month |-> r.year_month,
      subtotal |-> SumSubtotal(NotesUnder(d, r.id)),
      tax |-> SumTax(NotesUnder(d, r.id))] :
        r \in {r \in d.invoices : NotesUnder(d, r.id) # {}}}

RECURSIVE Ascending(_)
Ascending(S) == IF S = {} THEN <<>> ELSE <<MinOf(S)>> \o Ascending(S \ {MinOf(S)})

\* sheets_client.py:751-755: the header cells that name a month
MonthColumns == {c \in 1..Len(Row1) : Row1[c] # ""}

\* sheets_client.py:764-780: the entries of one row, by month column
RowAmounts(sh, r) ==
    LET cols == Ascending(MonthColumns)
    IN  [k \in 1..Len(cols) |->
            [company_name |-> Strip(ColA[r]), year_month |-> Row1[cols[k]],
             subtotal |-> parse_amount(sh[<<r, cols[k]>>]),
             tax |-> parse_amount(sh[<<r, cols[k] + 1>>])]]

RECURSIVE AmountsFrom(_, _)
AmountsFrom(sh, r) ==
    IF r > Len(ColA) THEN <<>>
    ELSE (IF Strip(ColA[r]) = <<>> THEN <<>> ELSE RowAmounts(sh, r))
             \o AmountsFrom(sh, r + 1)

\* sheets_client.py:735-782
get_billing_amounts(sh) == IF Len(ColA) < 3 THEN <<>> ELSE AmountsFrom(sh, 3)

\* billing.py:397-401: the amounts of the sheet, none when the read raises
SheetAmounts(sh, readable) == IF readable THEN get_billing_amounts(sh) ELSE <<>>

\* billing.py:415-428: the amounts of the mirror for a row of the store
SheetData(db_item, sheet_amounts) ==
    LET month_entries ==
            SelectSeq(sheet_amounts, LAMBDA e : e.year_month = db_item.year_month)
        sheet_names == [k \in 1..Len(month_entries) |-> month_entries[k].company_name]
        matched == IF month_entries = <<>> THEN None
                   ELSE match_company_name(db_item.company_name, sheet_names)
        hits == {k \in 1..Len(month_entries) : month_entries[k].company_name = matched}
    IN  IF matched = None \/ hits = {}
        THEN [subtotal |-> 0, tax |-> 0]
        ELSE [subtotal |-> month_entries[MinOf(hits)].subtotal,
              tax |-> month_entries[MinOf(hits)].tax]

\* only the subtotal is compared
DiffersSubtotalOnly(db_item, sheet_data) == db_item.subtotal # sheet_data.subtotal

\* billing.py:430-432
Differs(db_item, sheet_data) ==
    db_item.subtotal # sheet_data.subtotal \/ db_item.tax # sheet_data.tax

\* billing.py:373-445: the discrepancy records, kept as a set
check_discrepancy(d, sh, readable) ==
    LET sheet_amounts == SheetAmounts(sh, readable)
    IN  {[company_name |-> t.company_name, year_month |-> t.year_month,
          db_subtotal |-> t.subtotal, db_tax |-> t.tax,
          sheet_subtotal |-> SheetData(t, sheet_amounts).subtotal,
          sheet_tax |-> SheetData(t, sheet_amounts).tax] :
            t \in {t \in get_all_monthly_totals(d) :
                       Differs(t, SheetData(t, sheet_amounts))}}

----------------------------------------------------------------------------
(* Calls of match_company_name: sheets_client.py:65-114                    *)

MaxCandidates == 3

\* "K" is a legal-form marker, "H" an honorific; <<"K">> normalizes to the
\* empty name, <<"D">> matches nothing, and "A B C D" contains every
\* candidate at a different distance
MatchSearches ==
    {<<"A", "B">>, <<"A", "B", "H">>, <<"K">>, <<"D">>, <<"A", "B", "C", "D">>}

\* the empty candidate is skipped, as is "K", which normalizes to the empty
\* name; " A B" is returned stripped
MatchNames ==
    {<<>>, <<"K">>, <<"A">>, <<"A", "B", "C">>, <<"K", "A", "B">>, <<" ", "A", "B">>}

MatchCandidates == UNION {[1..n -> MatchNames] : n \in 0..MaxCandidates}

\* the call has not returned
Pending == <<"pending">>

MatchInit ==
    /\ db = EmptyDb
    /\ lock = 0
    /\ sheet = InitSheet
    /\ psheet = InitPSheet
    /\ h = [p \in Procs |-> Idle]
    /\ calls = 0
    /\ accepted = {}
    /\ fn \in [name : {"match_company_name"},
                args : MatchSearches \X MatchCandidates,
                out : {Pending}]

MatchCompanyName ==
    /\ fn.name = "match_company_name"
    /\ fn.out = Pending
    /\ fn' = [fn EXCEPT !.out = match_company_name(fn.args[1], fn.args[2])]
    /\ UNCHANGED <<db, lock, sheet, psheet, h, calls, accepted>>

MatchNext == MatchCompanyName

MatchSpec == MatchInit /\ [][MatchNext]_vars

----------------------------------------------------------------------------
(* calculate_target_month: utils.py:6-65.  A delivery date "YYYY/MM/DD" is  *)
(* the record of its three numbers.  A closing day is a record: kind       *)
(* "month_end" for a text that contains the month-end word (utils.py:44),  *)
(* "last_day" for the last-day word, "day" for the form "N日" with its     *)
(* number n, and "text" for any other text, on which int() raises.  The    *)
(* result "YYYY年M月" is the record of its year and month.                 *)

MaxClosingDay == 31

\* the days of the month: datetime.strptime raises ValueError on a day that
\* the month does not have (utils.py:25-27)
DaysIn(year, month) ==
    IF month \in {4, 6, 9, 11} THEN 30
    ELSE IF month # 2 THEN 31
    ELSE IF year % 4 = 0 /\ (year % 100 # 0 \/ year % 400 = 0) THEN 29
    ELSE 28

\* a day equal to the closing day goes to the following month too
calculate_target_month_AtOrAfter(delivery_date, closing_day) ==
    IF delivery_date.day > DaysIn(delivery_date.year, delivery_date.month)
    THEN [year |-> delivery_date.year, month |-> delivery_date.month]
    ELSE IF closing_day.kind = "day" /\ delivery_date.day >= closing_day.n
    THEN IF delivery_date.month = 12
         THEN [year |-> delivery_date.year + 1, month |-> 1]
         ELSE [year |-> delivery_date.year, month |-> delivery_date.month + 1]
    ELSE [year |-> delivery_date.year, month |-> delivery_date.month]

calculate_target_month(delivery_date, closing_day) ==
    IF delivery_date.day > DaysIn(delivery_date.year, delivery_date.month)
    THEN \* utils.py:27-34: the year and the month of the text
         [year |-> delivery_date.year, month |-> delivery_date.month]
    ELSE IF closing_day.kind \in {"month_end", "last_day"}
    THEN [year |-> delivery_date.year, month |-> delivery_date.month]
    ELSE IF closing_day.kind = "day"
    THEN IF delivery_date.day > closing_day.n
         THEN IF delivery_date.month = 12
              THEN [year |-> delivery_date.year + 1, month |-> 1]
              ELSE [year |-> delivery_date.year, month |-> delivery_date.month + 1]
         ELSE [year |-> delivery_date.year, month |-> delivery_date.month]
    ELSE \* utils.py:63-65
         [year |-> delivery_date.year, month |-> delivery_date.month]

\* the calls: every day number from 1 to 31 of every month of a leap year
\* and of the year after it, with every closing day; the month 0 of the
\* year 0 says that the call has not returned
TargetInit ==
    /\ db = EmptyDb
    /\ lock = 0
    /\ sheet = InitSheet
    /\ psheet = InitPSheet
    /\ h = [p \in Procs |-> Idle]
    /\ calls = 0
    /\ accepted = {}
    /\ fn \in [name : {"calculate_target_month"},
                args : [year : {2024, 2025}, month : 1..12, day : 1..31]
                       \X ([kind : {"month_end", "last_day", "text"}, n : {0}]
                            \cup [kind : {"day"}, n : 0..MaxClosingDay]),
                out : {[year |-> 0, month |-> 0]}]

CalculateTargetMonth ==
    /\ fn.name = "calculate_target_month"
    /\ fn.out = [year |-> 0, month |-> 0]
    /\ fn' = [fn EXCEPT !.out = calculate_target_month(fn.args[1], fn.args[2])]
    /\ UNCHANGED <<db, lock, sheet, psheet, h, calls, accepted>>

TargetNext == CalculateTargetMonth

TargetSpec == TargetInit /\ [][TargetNext]_vars

----------------------------------------------------------------------------
(* Calls of _find_company_row: sheets_client.py:117-145                    *)

\* the searches and the columns of the calls of match_company_name, with a
\* start row from the first row to the row after the last cell; -1 says
\* that the call has not returned
RowInit ==
    /\ db = EmptyDb
    /\ lock = 0
    /\ sheet = InitSheet
    /\ psheet = InitPSheet
    /\ h = [p \in Procs |-> Idle]
    /\ calls = 0
    /\ accepted = {}
    /\ fn \in {f \in [name : {"_find_company_row"},
                       args : MatchSearches \X MatchCandidates \X (1..(MaxCandidates + 1)),
                       out : {-1}] :
                  f.args[3] <= Len(f.args[2]) + 1}

FindCompanyRow ==
    /\ fn.name = "_find_company_row"
    /\ fn.out = -1
    /\ fn' = [fn EXCEPT !.out = _find_company_row(fn.args[1], fn.args[2], fn.args[3])]
    /\ UNCHANGED <<db, lock, sheet, psheet, h, calls, accepted>>

RowNext == FindCompanyRow

RowSpec == RowInit /\ [][RowNext]_vars

----------------------------------------------------------------------------
(* save_billing requests that succeed, one after the other, from an empty  *)
(* store and a mirror with empty accumulator cells: billing.py:85-201      *)

\* the names of the company column of the mirror: the non-empty cells from
\* row 3 (sheets_client.py:383-384)
CanonicalNames == {ColA[k] : k \in 3..Len(ColA)} \ {<<>>}

\* after the step the request of handler 1 has not failed: the batch has not
\* rolled back, no call of the mirror has raised, the company and the month
\* were found in the mirror, and the company name is a name of the mirror
Succeeding ==
    /\ h'[1].result.status # "http500"
    /\ ~h'[1].result.warning
    /\ h'[1].hist.mirror_raised = 0
    /\ h'[1].hist.mirror_missed = 0
    /\ ~Free(1)' => h'[1].company_name \in CanonicalNames

CleanNext ==
    \/ StartSaveBilling(1, MaxSeqCalls) /\ Succeeding
    \/ SaveBillingDuplicateCheck(1) /\ Succeeding
    \/ BatchTokenCheck(1) /\ Succeeding
    \/ BatchFindInvoice(1) /\ Succeeding
    \/ BatchBegin(1) /\ Succeeding
    \/ BatchNote(1) /\ Succeeding
    \/ BatchCommit(1) /\ Succeeding
    \/ MirrorRead(1) /\ Succeeding
    \/ MirrorWrite(1) /\ Succeeding

CleanSpec == Init /\ [][CleanNext]_vars

----------------------------------------------------------------------------
(* Calls of _find_invoice_id: database.py:196-232                          *)

MaxPeriods == 3

\* the names are stored as the callers gave them: "K A" normalizes to "A",
\* "A" is a part of "A B", and " A B" came with a leading blank
StoredNames == {<<"A">>, <<"A", "B">>, <<"K", "A">>, <<" ", "A", "B">>}

FindMonths == {"2025y3m", "2025y4m"}

FindSearches == {<<"A">>, <<"A", "B">>, <<"A", "H">>}

\* the periods of a store in the order of their ids: distinct (month, name)
PeriodLists ==
    {s \in UNION {[1..n -> FindMonths \X StoredNames] : n \in 0..MaxPeriods} :
        \A i, j \in 1..Len(s) : s[i] = s[j] => i = j}

\* a store with these periods, each with the note S1 and its line item
StoreOf(s) ==
    [EmptyDb EXCEPT
        !.invoices = {[id |-> k, year_month |-> s[k][1], company_name |-> s[k][2]] :
                         k \in 1..Len(s)},
        !.notes = {[id |-> k, monthly_invoice_id |-> k,
                    slip_number |-> NoteSeq[1].slip_number, date |-> NoteSeq[1].date,
                    sales_person |-> <<>>, subtotal |-> NoteSeq[1].subtotal,
                    tax |-> NoteSeq[1].tax, total |-> NoteSeq[1].total] :
                      k \in 1..Len(s)},
        !.items = {[id |-> k, delivery_note_id |-> k, product |-> NoteSeq[1].items[1]] :
                      k \in 1..Len(s)},
        !.seq = [invoice |-> Len(s), note |-> Len(s), item |-> Len(s)]]

\* the call has not returned: no row has this id
NotReturned == [id |-> -1, company_name |-> <<>>]

FindInit ==
    /\ db \in {StoreOf(s) : s \in PeriodLists}
    /\ lock = 0
    /\ sheet = InitSheet
    /\ psheet = InitPSheet
    /\ h = [p \in Procs |-> Idle]
    /\ calls = 0
    /\ accepted = {}
    /\ fn \in [name : {"_find_invoice_id"},
                args : FindMonths \X FindSearches,
                out : {NotReturned}]

FindInvoiceId ==
    /\ fn.name = "_find_invoice_id"
    /\ fn.out = NotReturned
    /\ fn' = [fn EXCEPT !.out = _find_invoice_id(db, fn.args[1], fn.args[2])]
    /\ UNCHANGED <<db, lock, sheet, psheet, h, calls, accepted>>

FindNext == FindInvoiceId

FindSpec == FindInit /\ [][FindNext]_vars

----------------------------------------------------------------------------
(* Calls of normalize_company_name: sheets_client.py:35-62                 *)

MaxNameLen == 4

\* a legal-form marker, an honorific, the brackets, whitespace and a
\* character of a name
NameTokens == {"K", "H", "(", ")", " ", "A"}

NormInputs == UNION {[1..n -> NameTokens] : n \in 0..MaxNameLen}

NormInit ==
    /\ db = EmptyDb
    /\ lock = 0
    /\ sheet = InitSheet
    /\ psheet = InitPSheet
    /\ h = [p \in Procs |-> Idle]
    /\ calls = 0
    /\ accepted = {}
    /\ fn \in [name : {"normalize_company_name"},
                args : {<<s>> : s \in NormInputs},
                out : {Pending}]

NormalizeCompanyName ==
    /\ fn.name = "normalize_company_name"
    /\ fn.out = Pending
    /\ fn' = [fn EXCEPT !.out = normalize_company_name(fn.args[1])]
    /\ UNCHANGED <<db, lock, sheet, psheet, h, calls, accepted>>

NormNext == NormalizeCompanyName

NormSpec == NormInit /\ [][NormNext]_vars

----------------------------------------------------------------------------
(* Properties                                                              *)

\* handler p is inside save_monthly_items_batch
InBatch(p) ==
    h[p].op \in BatchOps /\ h[p].pc \in {"b_token", "b_find", "b_begin", "b_note"}

\* the count a batch call hands back
Count(hp) == IF hp.pc = "done" THEN hp.result.saved_count ELSE hp.saved_count

RECURSIVE ApplyNotes(_, _, _, _)
ApplyNotes(d, invoice_id, notes, sales_person) ==
    IF notes = <<>> THEN d
    ELSE ApplyNotes(UpsertNote(d, invoice_id, Head(notes), sales_person).d,
                    invoice_id, Tail(notes), sales_person)

\* the database d with the whole batch of handler hp and its token in it
WholeBatch(d, hp) ==
    LET r == UpsertInvoice(d, hp.found, hp.year_month, hp.company_name)
    IN  RecordToken(ApplyNotes(r.d, r.invoice_id, hp.req.notes,
                               CleanSalesPerson(hp.req.sales_person)),
                    hp.req.request_id)

\* C1: save_monthly_items_batch is all-or-nothing.  A step of a handler
\* inside the batch either leaves the committed database (periods, notes,
\* line items, tokens) exactly as it is, or it is the commit and the
\* database then holds the whole batch and its token; a reader never sees
\* a strict subset of a batch.
C1_AllOrNothing ==
    [][\A p \in Procs :
          (InBatch(p) /\ h'[p] # h[p]) =>
              \/ db' = db
              \/ /\ h'[p].hist.committed
                 /\ db' = WholeBatch(db, h[p])]_vars

\* C1, its case: a batch failed after its first note had been written in the
\* transaction, and the database shows nothing of it
C1_Witness ==
    \E p \in Procs :
        /\ h[p].pc = "done" /\ h[p].hist.partial
        /\ h[p].result.status = "http500"
        /\ db = EmptyDb

\* C2: two calls in sequence with the same non-empty token.  The call that
\* commits returns the number of notes of its payload, which is positive,
\* and records the token; a call started after a batch with its token has
\* committed changes nothing in the database and returns 0 as skipped.
C2_SecondCallSkipped ==
    [][\A p \in Procs :
          /\ (InBatch(p) /\ h'[p].hist.committed) =>
                 /\ Count(h'[p]) = Len(h[p].req.notes)
                 /\ Count(h'[p]) > 0
                 /\ h[p].req.request_id # "" => h[p].req.request_id \in db'.tokens
          /\ (h[p].hist.acc_at_start /\ h[p].pc # "done" /\ h'[p] # h[p]) => db' = db
          /\ (h'[p].hist.acc_at_start /\ h'[p].op \in BatchOps /\ h'[p].pc = "done") =>
                 /\ h'[p].hist.skipped /\ ~h'[p].hist.committed
                 /\ h'[p].result.status = "ok"
                 /\ h'[p].result.saved_count = 0]_vars

\* C2, its case: a direct second call was skipped by the check inside the
\* batch while the notes of the first call are in the database
C2_Witness ==
    \E p \in Procs :
        /\ h[p].op = "save_monthly_items_batch" /\ h[p].pc = "done"
        /\ h[p].hist.acc_at_start /\ h[p].hist.skipped
        /\ h[p].result.saved_count = 0
        /\ db.notes # {}

\* C3: of two concurrent batch calls that carry the same non-empty token at
\* most one applies its writes and returns a non-zero count.
C3_AtMostOneApplies ==
    \A p, q \in Procs :
        (/\ p # q
         /\ h[p].op \in BatchOps /\ h[q].op \in BatchOps
         /\ h[p].req.request_id # ""
         /\ h[p].req.request_id = h[q].req.request_id
         /\ h[p].hist.committed /\ Count(h[p]) > 0)
        => ~(h[q].hist.committed /\ Count(h[q]) > 0)

\* C4: no step removes a token from the registry, and a submission that
\* starts when its token is recorded writes nothing, neither to the
\* database nor to a sheet, and ends as a skipped success with count 0,
\* whatever ran in between.
C4_TokenPermanent ==
    [][/\ db.tokens \subseteq db'.tokens
       /\ \A p \in Procs :
             (h'[p].hist.tok_at_start /\ h'[p] # h[p]) =>
                 /\ db' = db /\ sheet' = sheet /\ psheet' = psheet
                 /\ h'[p].pc = "done" =>
                        /\ h'[p].hist.skipped
                        /\ h'[p].result.status = "ok"
                        /\ h'[p].result.saved_count = 0]_vars

\* C4, its case: the data the token wrote was deleted, and a later
\* submission with the token was skipped all the same
C4_Witness ==
    \E p \in Procs :
        /\ h[p].pc = "done" /\ h[p].hist.tok_at_start /\ h[p].hist.skipped
        /\ h[p].req.request_id \in db.tokens
        /\ db.invoices = {} /\ db.notes = {} /\ db.seq.note > 0

\* C5: a save request that is skipped as already processed writes no cell
\* of the mirror.
C5_SkippedWritesNothing ==
    \A p \in Procs : h[p].hist.skipped => h[p].hist.mirror_writes = 0

C7_MirrorFailureKeepsCommit ==
    [][\A p \in Procs :
          (h[p].op = "save_billing" /\ h[p].pc \in {"m_read", "m_write"}
               /\ h'[p] # h[p]) =>
              /\ db' = db
              /\ h'[p].pc = "done" =>
                     /\ h'[p].result.status = "ok"
                     /\ h'[p].result.saved_count = h[p].saved_count]_vars

\* C7, its case: the batch committed, every mirror write of its two notes
\* raised, the notes are in the database and the result is a success
C7_Witness ==
    \E p \in Procs :
        /\ h[p].op = "save_billing" /\ h[p].pc = "done"
        /\ h[p].hist.committed /\ h[p].hist.mirror_raised = 2
        /\ h[p].result.status = "ok" /\ h[p].result.saved_count = 2
        /\ Cardinality(db.notes) = 2

\* C8: a save_billing whose mirror write did not update the sheet because
\* the column or the row was not found never ends as a success without a
\* warning.
C8_MirrorMissWarned ==
    \A p \in Procs :
        (/\ h[p].op = "save_billing" /\ h[p].pc = "done"
         /\ h[p].result.status = "ok"
         /\ h[p].hist.mirror_missed > 0)
        => h[p].result.warning

\* the balance column of the month of the sheets: period column + 3
BalanceCol == MonthColumn(Row1, "2025y3m") + 3
PBalanceCol == MonthColumn(PRow2, "2025y3m") + 3

\* C9 as stated: the balance cells of both sheets keep their values.
C9_BalanceNeverWritten ==
    /\ \A c \in DOMAIN sheet : c[2] = BalanceCol => sheet[c] = InitSheet[c]
    /\ \A c \in DOMAIN psheet : c[2] = PBalanceCol => psheet[c] = InitPSheet[c]

\* C9, amended: save_billing_record never writes a balance cell of the
\* billing sheet; save_purchase_record does write the balance cell of its
\* target row, setting it to the value read plus subtotal plus tax, and no
\* other balance cell changes.
C9_BalanceWrites ==
    [][/\ \A c \in DOMAIN sheet : c[2] = BalanceCol => sheet'[c] = sheet[c]
       /\ \A c \in DOMAIN psheet :
             (c[2] = PBalanceCol /\ psheet'[c] # psheet[c]) =>
                 \E p \in Procs :
                     /\ h[p].op = "save_purchase" /\ h[p].pc = "pm_write"
                     /\ c[1] = h[p].cur.row
                     /\ psheet'[c] = Num(h[p].cur.zandaka
                                         + h[p].req.notes[h[p].i].subtotal
                                         + h[p].req.notes[h[p].i].tax)]_vars

\* C9, its case: a billing mirror write and a purchase mirror write both
\* succeeded; the purchase one changed a balance cell
C9_Witness ==
    /\ \E p \in Procs : h[p].op = "save_billing" /\ h[p].hist.mirror_done > 0
    /\ \E c \in DOMAIN psheet : c[2] = PBalanceCol /\ psheet[c] # InitPSheet[c]
    /\ \A c \in DOMAIN sheet : c[2] = BalanceCol => sheet[c] = InitSheet[c]

C11_WriteUsesValueRead ==
    [][\A p \in Procs :
          (/\ h[p].op = "save_billing" /\ h[p].pc = "m_write"
           /\ h'[p].hist.mirror_done = h[p].hist.mirror_done + 1) =>
              /\ sheet'[<<h[p].cur.row, h[p].cur.col>>] =
                     Num(h[p].cur.hassei + h[p].req.notes[h[p].i].subtotal)
              /\ sheet'[<<h[p].cur.row, h[p].cur.col + 1>>] =
                     Num(h[p].cur.tax + h[p].req.notes[h[p].i].tax)]_vars

\* C11, its case: two requests each committed one note (subtotal 10, tax 1)
\* and each wrote the mirror for it, and the cells of the company, empty at
\* first, hold one delta only
C11_Witness ==
    /\ \A p \in Procs :
          /\ h[p].op = "save_billing" /\ h[p].pc = "done"
          /\ h[p].hist.committed /\ h[p].result.saved_count = 1
          /\ h[p].hist.mirror_done = 1
    /\ InitSheet[<<3, 2>>] = EmptyCell
    /\ sheet[<<3, 2>>] = Num(10)
    /\ sheet[<<3, 3>>] = Num(1)


\* C12: when force_overwrite is false and a slip number of the payload
\* exists under the period found for (year_month, company), save_billing
\* ends with a duplicate conflict and has written nothing: the database,
\* its tokens and both sheets are as before.
C12_DuplicateConflict ==
    [][\A p \in Procs :
          (/\ h[p].op = "save_billing" /\ h[p].pc = "sb_dup" /\ h'[p] # h[p]
           /\ find_existing_slip_numbers(
                  db, h[p].company_name, h[p].year_month,
                  {h[p].req.notes[k].slip_number : k \in 1..Len(h[p].req.notes)}) # {}) =>
              /\ h'[p].pc = "done"
              /\ h'[p].result.status = "conflict"
              /\ h'[p].result.saved_count = 0
              /\ ~h'[p].hist.committed /\ h'[p].hist.mirror_writes = 0
              /\ db' = db /\ sheet' = sheet /\ psheet' = psheet]_vars

\* C12, its case: a request with a token ended with a conflict; its token
\* is not recorded and the note it collided with is in the database
C12_Witness ==
    \E p \in Procs :
        /\ h[p].op = "save_billing" /\ h[p].pc = "done"
        /\ h[p].result.status = "conflict"
        /\ h[p].req.request_id # "" /\ h[p].req.request_id \notin db.tokens
        /\ db.notes # {}


\* C13: a save request that reports failure has applied nothing: it wrote
\* no cell of a mirror, committed nothing to the database and its token is
\* not recorded by it.
C13_FailureAppliesNothing ==
    \A p \in Procs :
        (h[p].pc = "done" /\ h[p].result.status = "http500") =>
            /\ h[p].hist.mirror_writes = 0
            /\ ~h[p].hist.committed


\* idx_delivery_notes_slip_unique, database.py:110-114
NotesUnique(d) ==
    \A a, b \in d.notes :
        (a.monthly_invoice_id = b.monthly_invoice_id /\ a.slip_number = b.slip_number)
            => a.id = b.id

\* the step is a call of op that committed
CallCommitted(op) ==
    /\ calls' = calls + 1
    /\ h'[1].op = op
    /\ h'[1].result.status = "ok"

\* the notes that the request of the call finds in the store before the call
HitNotes ==
    LET req == h'[1].req
        found == _find_invoice_id(db, req.year_month, req.company_name)
    IN  {n \in db.notes : /\ n.monthly_invoice_id = found.id
                          /\ n.slip_number = req.notes[1].slip_number}

\* C14: there is at most one note per (invoice period, slip number) after any
\* sequence of single-note saves, batch saves and updates, and a single-note
\* save whose slip number exists in the period adds no row: the existing
\* note keeps its id and carries the date, tag, subtotal, tax and total of
\* the request.
C14_OneNotePerSlip ==
    [][/\ NotesUnique(db')
       /\ (CallCommitted("save_monthly_items") /\ HitNotes # {}) =>
              LET req == h'[1].req
                  note == req.notes[1]
              IN  /\ Cardinality(db'.notes) = Cardinality(db.notes)
                  /\ \A old \in HitNotes :
                        \E n \in db'.notes :
                            /\ n.id = old.id
                            /\ n.slip_number = note.slip_number
                            /\ n.date = note.date
                            /\ n.sales_person = CleanSalesPerson(req.sales_person)
                            /\ n.subtotal = note.subtotal
                            /\ n.tax = note.tax
                            /\ n.total = note.total]_vars

\* slip S1 was saved and saved again with subtotal 30: one row, with the
\* latest amounts and tag
C14_Witness ==
    /\ h[1].op = "save_monthly_items"
    /\ h[1].pc = "done"
    /\ h[1].result.status = "ok"
    /\ h[1].req.notes[1].subtotal = 30
    /\ h[1].req.sales_person = <<"T">>
    /\ calls = 2
    /\ Cardinality(db.notes) = 1
    /\ \E n \in db.notes : n.subtotal = 30 /\ n.total = 40 /\ n.sales_person = <<"T">>
    /\ db.seq.note = 1
    /\ db.seq.item >= 2


\* C15: when a single-note save or an update hits an existing note, the line
\* items of that note afterwards are those of the request, in the order of
\* the request, and none of the line items it had before remains.
C15_ItemsReplaced ==
    [][\A op \in {"save_monthly_items", "update_monthly_item"} :
          CallCommitted(op) =>
              \A old \in HitNotes :
                  /\ ItemsOf(db', old.id) = h'[1].req.notes[1].items
                  /\ \A it \in db.items :
                        it.delivery_note_id = old.id => it \notin db'.items]_vars

\* an update hit the note of slip S1, which had line items, and the note
\* now has the one line item of the update
C15_Witness ==
    /\ h[1].op = "update_monthly_item"
    /\ h[1].pc = "done"
    /\ h[1].result.status = "ok"
    /\ h[1].req.notes[1].items = <<"i2">>
    /\ calls = 2
    /\ db.seq.note = 1
    /\ db.seq.item = 2
    /\ ItemsOf(db, 1) = <<"i2">>


\* the periods stored under exactly the company name and period of the
\* request of the call
ExactPeriods ==
    {r \in db.invoices : /\ r.year_month = h'[1].req.year_month
                         /\ r.company_name = h'[1].req.company_name}

\* the step is a call of delete_monthly_items on a period that exists
DeletedExisting ==
    /\ calls' = calls + 1
    /\ h'[1].op = "delete_monthly_items"
    /\ ExactPeriods # {}

\* C16: after delete_monthly_items on an existing period, get_monthly_items
\* of the same company and period returns the empty list, and no note and
\* no line item of the deleted period remains in the store.
C16_DeleteEmpties ==
    [][DeletedExisting =>
          /\ get_monthly_items(db', h'[1].req.company_name, h'[1].req.year_month, <<>>)
                 = <<>>
          /\ \A r \in ExactPeriods :
                \A n \in db.notes :
                    n.monthly_invoice_id = r.id =>
                        /\ n \notin db'.notes
                        /\ \A it \in db.items :
                              it.delivery_note_id = n.id => it \notin db'.items]_vars


\* FOREIGN KEY ... ON DELETE CASCADE with PRAGMA foreign_keys = ON
\* (database.py:26-39, 58-87): every row has exactly one parent row
NoOrphans(d) ==
    /\ \A it \in d.items :
          Cardinality({n \in d.notes : n.id = it.delivery_note_id}) = 1
    /\ \A n \in d.notes :
          Cardinality({r \in d.invoices : r.id = n.monthly_invoice_id}) = 1

\* C17: in every reachable state of the store, and of an open transaction,
\* each line item references exactly one existing note and each note exactly
\* one existing invoice period, after any sequence of saves, updates,
\* deletes and rolled-back batches.
C17_NoOrphans ==
    /\ NoOrphans(db)
    /\ \A p \in Procs : NoOrphans(h[p].tx)

\* a delete removed one of two periods together with its note and line
\* items; the rows of the other period are still there
C17_Witness ==
    /\ h[1].op = "delete_monthly_items"
    /\ h[1].pc = "done"
    /\ db.seq.invoice = 2
    /\ Cardinality(db.invoices) = 1
    /\ Cardinality(db.notes) < db.seq.note
    /\ db.notes # {}
    /\ db.items # {}


\* C18: in every reachable state there is at most one invoice period per
\* (period, company name), also after a save that found the period through
\* the fuzzy matcher and renamed it to the company name of the request.
C18_OnePeriodPerCompany == InvoicesUnique(db)

\* a single-note save found a period under another name and renamed it:
\* the row, older than the newest one, now carries the name of the request
C18_Witness ==
    /\ h[1].op = "save_monthly_items"
    /\ h[1].pc = "done"
    /\ h[1].hist.renamed
    /\ Cardinality(db.invoices) = 2
    /\ \E r \in db.invoices : /\ r.company_name = h[1].req.company_name
                                /\ r.year_month = h[1].req.year_month
                                /\ r.id < db.seq.invoice


\* C19: the company name\* C19: the company name of every invoice period written through save_billing
\* is a name of the company column of the mirror, never the raw name of the
\* request, also when the matcher finds no candidate or the lookup fails.
C19_CanonicalStored ==
    [][\A p \in Procs :
          (/\ h[p].op = "save_billing"
           /\ h[p].pc = "b_note"
           /\ ~h[p].hist.committed
           /\ h'[p].hist.committed) =>
              \E r \in db'.invoices : /\ r.id = h[p].invoice_id
                                       /\ r.company_name \in CanonicalNames]_vars


\* the call of match_company_name has returned
Matched == fn.name = "match_company_name" /\ fn.out # Pending

\* the positions of the candidates whose normalized form is the normalized
\* search
ExactMatches ==
    {i \in 1..Len(fn.args[2]) :
        /\ fn.args[2][i] # <<>>
        /\ normalize_company_name(fn.args[2][i]) = normalize_company_name(fn.args[1])}

\* the positions of the candidates that contain the normalized search or
\* are contained in it, and are not equal to it
SubstringOnly ==
    {i \in 1..Len(fn.args[2]) :
        LET nc == normalize_company_name(fn.args[2][i])
            ns == normalize_company_name(fn.args[1])
        IN  /\ nc # <<>>
            /\ nc # ns
            /\ Contains(nc, ns) \/ Contains(ns, nc)}

LenDiff(i) ==
    Abs(Len(normalize_company_name(fn.args[1]))
        - Len(normalize_company_name(fn.args[2][i])))

C22_EmptyNeverMatches ==
    Matched =>
        /\ normalize_company_name(fn.args[1]) = <<>> => fn.out = None
        /\ fn.out # None =>
              /\ normalize_company_name(fn.out) # <<>>
              /\ \E i \in 1..Len(fn.args[2]) :
                    /\ fn.out = Strip(fn.args[2][i])
                    /\ normalize_company_name(fn.args[2][i]) # <<>>

\* "D" was searched in <<"K">>, whose normalized form, empty, is contained
\* in every name: none was returned
C22_Witness ==
    /\ Matched
    /\ fn.args = << <<"D">>, << <<"K">> >> >>
    /\ normalize_company_name(fn.args[2][1]) = <<>>
    /\ fn.out = None


\* the number of tokens of s that are in T
RECURSIVE CountIn(_, _)
CountIn(s, T) ==
    IF s = <<>> THEN 0 ELSE (IF Head(s) \in T THEN 1 ELSE 0) + CountIn(Tail(s), T)

\* the position of the bracket that closes the bracket opening s, 0 when
\* it is never closed
ClosingOf(s) ==
    LET closed == {j \in 2..Len(s) :
                      CountIn(SubSeq(s, 1, j), OpenBrackets)
                          = CountIn(SubSeq(s, 1, j), CloseBrackets)}
    IN  IF closed = {} THEN 0 ELSE MinOf(closed)

\* s consists only of removable tokens: legal-form markers, honorifics,
\* whitespace and bracketed substrings, nested ones included
RECURSIVE OnlyRemovable(_)
OnlyRemovable(s) ==
    IF s = <<>> THEN TRUE
    ELSE IF Head(s) \in LegalTokens \cup HonorificTokens \cup Whitespace
    THEN OnlyRemovable(Tail(s))
    ELSE IF Head(s) \in OpenBrackets /\ ClosingOf(s) # 0
    THEN OnlyRemovable(SubSeq(s, ClosingOf(s) + 1, Len(s)))
    ELSE FALSE

\* C23: normalize_company_name returns the empty name for the empty input
\* and for every input that consists only of removable tokens (legal-form
\* markers, honorifics, bracketed substrings, nested ones and ones around
\* removable tokens included, and whitespace).
C23_RemovableIsEmpty ==
    (/\ fn.name = "normalize_company_name"
     /\ fn.out # Pending
     /\ OnlyRemovable(fn.args[1])) => fn.out = <<>>


\* the names of the mirror for a period as check_discrepancy gets them: the
\* company column when the sheet is read and has the month, nothing otherwise
MirrorNames(year_month, readable) ==
    IF readable /\ MonthColumn(Row1, year_month) # 0
    THEN SelectSeq([k \in 1..(Len(ColA) - 2) |-> Strip(ColA[k + 2])],
                   LAMBDA v : v # <<>>)
    ELSE <<>>

\* the amounts of the mirror for a company and a period: those of the first
\* row of the name the matcher chooses, zero when it chooses none
MirrorAmounts(company_name, year_month, readable) ==
    LET chosen == match_company_name(company_name, MirrorNames(year_month, readable))
        rows == {r \in 3..Len(ColA) : Strip(ColA[r]) = chosen}
        col == MonthColumn(Row1, year_month)
    IN  IF chosen = None \/ rows = {}
        THEN [subtotal |-> 0, tax |-> 0]
        ELSE [subtotal |-> parse_amount(sheet[<<MinOf(rows), col>>]),
              tax |-> parse_amount(sheet[<<MinOf(rows), col + 1>>])]

\* C24: check_discrepancy has exactly one record for an aggregate row
\* (company, period) of the store if its subtotal or its tax differs from
\* the amounts of the mirror for the company the matcher chooses, zero when
\* no name matches, and no record otherwise; it has no other record.
C24_RecordIffDiffers ==
    \A readable \in BOOLEAN :
        LET out == check_discrepancy(db, sheet, readable)
            totals == get_all_monthly_totals(db)
        IN  /\ \A t \in totals :
                  LET m == MirrorAmounts(t.company_name, t.year_month, readable)
                      recs == {x \in out : /\ x.company_name = t.company_name
                                            /\ x.year_month = t.year_month}
                  IN  Cardinality(recs) =
                          IF t.subtotal # m.subtotal \/ t.tax # m.tax THEN 1 ELSE 0
            /\ \A x \in out :
                  \E t \in totals : /\ x.company_name = t.company_name
                                     /\ x.year_month = t.year_month

\* the store holds 10 and 1 for a company whose cells hold 10 and nothing:
\* the second write of the mirror failed, the tax differs by 1, and there is
\* a record
C24_Witness ==
    /\ \E t \in get_all_monthly_totals(db) :
          /\ t.subtotal = 10 /\ t.tax = 1
          /\ MirrorAmounts(t.company_name, t.year_month, TRUE) = [subtotal |-> 10, tax |-> 0]
    /\ Cardinality(check_discrepancy(db, sheet, TRUE)) = 1


RECURSIVE SeqSubtotal(_)
SeqSubtotal(s) == IF s = <<>> THEN 0 ELSE Head(s).subtotal + SeqSubtotal(Tail(s))

RECURSIVE SeqTax(_)
SeqTax(s) == IF s = <<>> THEN 0 ELSE Head(s).tax + SeqTax(Tail(s))

Slips(d, company_name, year_month) ==
    LET listed == get_monthly_items(d, company_name, year_month, <<>>)
    IN  [k \in 1..Len(listed) |-> listed[k].slip_number]

\* the slip numbers of notes that are not in slips, appended in their order
RECURSIVE AppendNew(_, _)
AppendNew(slips, notes) ==
    IF notes = <<>> THEN slips
    ELSE AppendNew(IF \E k \in 1..Len(slips) : slips[k] = Head(notes).slip_number
                   THEN slips
                   ELSE Append(slips, Head(notes).slip_number),
                   Tail(notes))

\* the step commits the batch of handler 1
BatchCommitted ==
    /\ h[1].op = "save_monthly_items_batch"
    /\ h[1].pc = "b_note"
    /\ ~h[1].hist.committed
    /\ h'[1].hist.committed

\* C26: get_monthly_items lists the notes of a period in the order of their
\* first insertion: a save, an update or a batch leaves the notes listed
\* before in their places, also those whose slip number it writes again, and
\* the new ones come after them in the order of the payload.
C26_InsertionOrder ==
    [][/\ \A op \in {"save_monthly_items", "update_monthly_item"} :
             CallCommitted(op) =>
                 Slips(db', h'[1].req.company_name, h'[1].req.year_month)
                     = AppendNew(Slips(db, h'[1].req.company_name, h'[1].req.year_month),
                                 h'[1].req.notes)
       /\ BatchCommitted =>
             Slips(db', h[1].company_name, h[1].year_month)
                 = AppendNew(Slips(db, h[1].company_name, h[1].year_month),
                             h[1].req.notes)]_vars

\* S1 was saved, then S2, then S1 again with other amounts: S1 is still
\* listed first
C26_Witness ==
    /\ h[1].op = "save_monthly_items"
    /\ h[1].pc = "done"
    /\ h[1].result.status = "ok"
    /\ h[1].req.notes[1].slip_number = "S1"
    /\ calls = 3
    /\ db.seq.note = 2
    /\ db.seq.item = 4
    /\ \E n \in db.notes : n.id = 1 /\ n.slip_number = "S1"
    /\ Slips(db, h[1].req.company_name, h[1].req.year_month) = <<"S1", "S2">>


\* the periods of the month searched
PeriodsOfMonth == {r \in db.invoices : r.year_month = fn.args[1]}

\* the name the matcher selects among the names of the month searched
SelectedName ==
    LET rows == ById(PeriodsOfMonth)
    IN  match_company_name(fn.args[2], [k \in 1..Len(rows) |-> rows[k].company_name])

\* C27: _find_invoice_id returns the period whose (period, company) equals
\* the arguments when there is one; otherwise the period of the same month
\* whose company name the matcher selects among the names of that month,
\* and none when it selects none; the period returned is never one of
\* another month.
C27_FindPeriod ==
    (fn.name = "_find_invoice_id" /\ fn.out # NotReturned) =>
        LET exact == {r \in PeriodsOfMonth : r.company_name = fn.args[2]}
        IN  /\ exact # {} => \E r \in exact : fn.out.id = r.id
            /\ (exact = {} /\ SelectedName = None) => fn.out = NotFound
            /\ (exact = {} /\ SelectedName # None) =>
                  \E r \in PeriodsOfMonth :
                      /\ fn.out.id = r.id
                      /\ Strip(r.company_name) = SelectedName
            /\ fn.out # NotFound =>
                  \E r \in PeriodsOfMonth :
                      fn.out = [id |-> r.id, company_name |-> r.company_name]


\* get_monthly_items lists every note of notes with its three amounts
ListedAsGiven(d, company_name, year_month, notes) ==
    LET listed == get_monthly_items(d, company_name, year_month, <<>>)
    IN  \A k \in 1..Len(notes) :
            (\A j \in (k + 1)..Len(notes) : notes[j].slip_number # notes[k].slip_number) =>
                \E i \in 1..Len(listed) :
                    /\ listed[i].slip_number = notes[k].slip_number
                    /\ listed[i].subtotal = notes[k].subtotal
                    /\ listed[i].tax = notes[k].tax
                    /\ listed[i].total = notes[k].total

\* C28: the store keeps and returns the subtotal, the tax and the total of a
\* note as the caller gave them: after a committed save, update or batch,
\* get_monthly_items lists the notes of the payload with the amounts of the
\* payload, also when the total is not the subtotal plus the tax.
C28_AmountsAsGiven ==
    [][/\ \A op \in {"save_monthly_items", "update_monthly_item"} :
             CallCommitted(op) =>
                 ListedAsGiven(db', h'[1].req.company_name, h'[1].req.year_month,
                               h'[1].req.notes)
       /\ BatchCommitted =>
             ListedAsGiven(db', h[1].company_name, h[1].year_month, h[1].req.notes)]_vars

\* the note 30/3 with total 40 was saved and is listed with total 40
C28_Witness ==
    /\ h[1].op = "save_monthly_items"
    /\ h[1].pc = "done"
    /\ h[1].result.status = "ok"
    /\ h[1].req.notes[1].total # h[1].req.notes[1].subtotal + h[1].req.notes[1].tax
    /\ LET listed == get_monthly_items(db, h[1].req.company_name, h[1].req.year_month, <<>>)
       IN  \E i \in 1..Len(listed) :
               listed[i].subtotal = 30 /\ listed[i].tax = 3 /\ listed[i].total = 40


\* the step is a batch of handler p that fails
BatchFailed(p) ==
    /\ h[p].op \in BatchOps
    /\ h[p].pc \in {"b_begin", "b_note"}
    /\ h'[p].pc = "done"
    /\ h'[p].result.status = "http500"

\* C29: a request token is recorded only together with a committed batch:
\* every token of the registry is the token of a batch that committed, a
\* batch that fails and rolls back leaves the registry and the store as
\* they were, and a batch is skipped for its token only when a batch with
\* that token committed, so the retry of a failed batch is executed.
C29_TokenOnlyWithCommit ==
    [][/\ db'.tokens \subseteq accepted'
       /\ \A p \in Procs :
             /\ BatchFailed(p) => db' = db
             /\ (h[p].op \in BatchOps /\ h[p].pc = "b_token" /\ h'[p].hist.skipped)
                    => h[p].req.request_id \in accepted]_vars

\* a batch with token t1 failed after its first note was written in the
\* transaction: the store is empty and t1 is not in the registry
C29_Witness ==
    /\ h[1].op \in BatchOps
    /\ h[1].pc = "done"
    /\ h[1].result.status = "http500"
    /\ h[1].req.request_id = "t1"
    /\ h[1].hist.partial
    /\ "t1" \notin db.tokens
    /\ db.notes = {}


\* C30: from an empty store and a mirror with empty accumulator cells, after
\* any sequence of save_billing requests whose commits and mirror writes all
\* succeed and whose company names resolve, re-submissions of a stored slip
\* number with force_overwrite included, check_discrepancy returns no
\* record.
C30_NoDiscrepancy ==
    Free(1) => check_discrepancy(db, sheet, TRUE) = {}


\* the request of the call that takes the step: a batch commits with its
\* request at hand, the other calls run in one step
SteppingRequest == IF h[1].pc = "b_note" THEN h[1].req ELSE h'[1].req

\* the period row r and the notes under it are the same after the step
PeriodKept(r) ==
    /\ r \in db'.invoices
    /\ {n \in db'.notes : n.monthly_invoice_id = r.id}
           = {n \in db.notes : n.monthly_invoice_id = r.id}

\* the normalized names are both non-empty and one contains the other
SubstringCompatible(a, b) ==
    /\ normalize_company_name(a) # <<>>
    /\ normalize_company_name(b) # <<>>
    /\ \/ Contains(normalize_company_name(a), normalize_company_name(b))
       \/ Contains(normalize_company_name(b), normalize_company_name(a))

ReturnedSlips(d, company_name, year_month, sales_person) ==
    {n.slip_number : n \in {get_monthly_items(d, company_name, year_month, sales_person)[k] :
        k \in 1..Len(get_monthly_items(d, company_name, year_month, sales_person))}}

\* C32: get_monthly_items with a non-empty sales_person t returns the notes
\* of the period that were saved with sales_person t, also when t contains
\* white space: right after save_monthly_items or update_monthly_item has
\* committed a note with sales_person t, the note is among the notes
\* returned for t.
C32_FilterReturnsSaved ==
    [][\A op \in {"save_monthly_items", "update_monthly_item"} :
          (/\ h'[1] # h[1] /\ h'[1].op = op /\ h'[1].pc = "done"
           /\ h'[1].hist.committed
           /\ h'[1].req.sales_person # <<>>)
          => h'[1].req.notes[1].slip_number
                \in ReturnedSlips(db', h'[1].req.company_name, h'[1].req.year_month,
                                  h'[1].req.sales_person)]_vars


\* the slip numbers of a payload
PayloadSlips(notes) == {notes[k].slip_number : k \in 1..Len(notes)}

\* C33: when save_monthly_items_batch is not skipped, the number it returns
\* is the number of notes of the payload, and it is the number of note rows
\* of the period that the call inserted or updated, also when two notes of
\* the payload carry the same slip number.
C33_CountIsRowsWritten ==
    [][(/\ h[1].op = "save_monthly_items_batch" /\ h[1].pc = "b_note"
        /\ h'[1].hist.committed)
       => /\ h'[1].result.saved_count = Len(h[1].req.notes)
          /\ h'[1].result.saved_count
                = Cardinality({n \in db'.notes :
                                  /\ n.monthly_invoice_id = h[1].invoice_id
                                  /\ n.slip_number \in PayloadSlips(h[1].req.notes)})]_vars


\* the notes with the slip number of the request in the period that
\* _find_invoice_id finds for the request in the store d
NotesOfRequest(d, req) ==
    {n \in d.notes :
        /\ n.monthly_invoice_id = _find_invoice_id(d, req.year_month, req.company_name).id
        /\ n.slip_number = req.notes[1].slip_number}

\* update_monthly_item has committed in the step
UpdateCommitted ==
    /\ h'[1] # h[1]
    /\ h'[1].op = "update_monthly_item" /\ h'[1].pc = "done" /\ h'[1].hist.committed

\* C34 as stated: update_monthly_item on an existing note keeps the stored
\* sales_person when the sales_person of the call is empty and replaces it
\* when it is not empty; a note that does not exist is inserted, and after
\* the call the period holds exactly one note with the slip number.
C34_EmptyKeepsTag ==
    [][UpdateCommitted =>
          /\ Cardinality(NotesOfRequest(db', h'[1].req)) = 1
          /\ \A o \in NotesOfRequest(db, h'[1].req), n \in NotesOfRequest(db', h'[1].req) :
                /\ n.id = o.id
                /\ n.sales_person = IF h'[1].req.sales_person = <<>>
                                    THEN o.sales_person
                                    ELSE CleanSalesPerson(h'[1].req.sales_person)]_vars

\* C34 amended: the stored sales_person is kept when the sales_person of the
\* call is empty once its white space is removed, and replaced by the
\* sales_person without its white space otherwise; a note that does not
\* exist is inserted, and after the call the period holds exactly one note
\* with the slip number.
C34_BlankKeepsTag ==
    [][UpdateCommitted =>
          /\ Cardinality(NotesOfRequest(db', h'[1].req)) = 1
          /\ \A o \in NotesOfRequest(db, h'[1].req), n \in NotesOfRequest(db', h'[1].req) :
                /\ n.id = o.id
                /\ n.sales_person = IF CleanSalesPerson(h'[1].req.sales_person) = <<>>
                                    THEN o.sales_person
                                    ELSE CleanSalesPerson(h'[1].req.sales_person)]_vars

\* an update without sales_person has committed on a note that is stored
\* with the sales_person "T", next to a note of the other slip number
C34_Witness ==
    /\ h[1].op = "update_monthly_item" /\ h[1].pc = "done" /\ h[1].hist.committed
    /\ h[1].req.sales_person = <<>>
    /\ \E n \in NotesOfRequest(db, h[1].req) :
          /\ n.sales_person = <<"T">>
          /\ n.subtotal = h[1].req.notes[1].subtotal
    /\ Cardinality(db.notes) = 2


\* the notes that the step has changed, removed or added
NotesChanged == (db.notes \ db'.notes) \cup (db'.notes \ db.notes)

ChosenFrom(search, col, start) == match_company_name(search, SubSeq(col, start, Len(col)))

\* the rows from the start row on whose stripped cell is the name
RowsOf(name, col, start) == {k \in start..Len(col) : Strip(col[k]) = name}

\* C36: _find_company_row returns the row of the first cell at or after
\* start_row whose stripped value is the name that match_company_name chooses
\* among the cells from start_row on, and none when the matcher chooses none;
\* the row is never before start_row, and its cell is substring-compatible
\* with the search name after normalization.
C36_RowOfMatch ==
    (fn.name = "_find_company_row" /\ fn.out # -1)
    => /\ ChosenFrom(fn.args[1], fn.args[2], fn.args[3]) = None => fn.out = 0
       /\ ChosenFrom(fn.args[1], fn.args[2], fn.args[3]) # None
             => /\ fn.out \in RowsOf(ChosenFrom(fn.args[1], fn.args[2], fn.args[3]),
                                     fn.args[2], fn.args[3])
                /\ \A k \in RowsOf(ChosenFrom(fn.args[1], fn.args[2], fn.args[3]),
                                    fn.args[2], fn.args[3]) : fn.out <= k
       /\ fn.out # 0
             => /\ fn.out >= fn.args[3]
                /\ SubstringCompatible(fn.args[2][fn.out], fn.args[1])

\* a call from row 2 on has returned a row after row 2 whose cell matches the
\* search by the fallback pass, while the cell of row 1 matches it too
C36_Witness ==
    /\ fn.name = "_find_company_row"
    /\ fn.args[3] = 2
    /\ fn.out > 2
    /\ normalize_company_name(fn.args[2][fn.out]) # normalize_company_name(fn.args[1])
    /\ SubstringCompatible(fn.args[2][1], fn.args[1])


\* calculate_target_month has returned for a delivery date that is a date
TargetReturned ==
    /\ fn.name = "calculate_target_month"
    /\ fn.out # [year |-> 0, month |-> 0]
    /\ fn.args[1].day <= DaysIn(fn.args[1].year, fn.args[1].month)

====
